---- MODULE Spec2Model ----
(***************************************************************************)
(* Herbarium: the deployment catalog (HerbariumDB and its repositories),   *)
(* the HAProxy client with its transaction middleware, the leaf and stem   *)
(* lifecycle (LeafManager, StemManager) and the graft-node cold start.     *)
(*                                                                         *)
(* Every goroutine of the program is a thread of the model.  A step of a   *)
(* thread is one access to shared state: one repository method (one scope  *)
(* of the catalog lock), one exchange with the HAProxy data plane that     *)
(* reads or writes the committed configuration, or one call to the         *)
(* operating system.  The working copy of an HAProxy transaction is        *)
(* visible to its owner only, so the calls made on it run in the step      *)
(* that opened the transaction.                                            *)
(***************************************************************************)
EXTENDS Integers, Sequences, FiniteSets, TLC

\* ------------------------------------------------------------------ bounds

NumThreads == 2
MaxProcs == 2
MaxGraftServers == 1
MaxNano == 2
MaxVersion == 3

\* the work issued in one behaviour: a call of a manager operation counts
\* CallWork, a request to a graft node RequestWork
MaxWork == 4
CallWork == 2
RequestWork == 1

\* findAvailablePort(8000)
BasePort == 8000

Threads == 1..NumThreads
Ports == BasePort..(BasePort + MaxProcs + MaxGraftServers)

\* ------------------------------------------------------------------ strings
\* A string is the sequence of its tokens, so that fmt.Sprintf and
\* strings.TrimPrefix are computed on it.

Slash == "/"
Dash == "-"

\* strings.TrimPrefix(s, "/")
TrimPrefix(s) == IF Len(s) > 0 /\ Head(s) = Slash THEN Tail(s) ELSE s

\* fmt.Sprintf("%s-%s-%d", stemName, version, time.Now().UnixNano())
LeafIDOf(name, version, nano) == name \o <<Dash>> \o version \o <<Dash>> \o <<ToString(nano)>>

\* fmt.Sprintf("%s-%s-graftnode", stemName, version)
GraftIDOf(name, version) == name \o <<Dash>> \o version \o <<Dash>> \o <<"graftnode">>

NoStr == <<>>

Space == " "

\* strings.Fields(s): the maximal runs of tokens that are not white space;
\* cur is the run being read
RECURSIVE SplitFields(_, _)
SplitFields(s, cur) ==
    LET word == IF cur = <<>> THEN <<>> ELSE <<cur>> IN
    IF s = <<>> THEN word
    ELSE IF Head(s) = Space THEN word \o SplitFields(Tail(s), <<>>)
    ELSE SplitFields(Tail(s), Append(cur, Head(s)))

Fields(s) == SplitFields(s, <<>>)

\* the characters of names, versions, URLs and IDs, in the order of their bytes
Alphabet == <<Dash, Slash, "0", "1", "2", "3", "4", "5", "6", "7", "8", "9", "a", "b", "s">>

ByteOf(c) == CHOOSE i \in 1..Len(Alphabet) : Alphabet[i] = c

\* a < b on strings: the first byte that differs decides, a proper prefix is less
RECURSIVE StrLess(_, _)
StrLess(a, b) ==
    IF b = <<>> THEN FALSE
    ELSE IF a = <<>> THEN TRUE
    ELSE IF Head(a) = Head(b) THEN StrLess(Tail(a), Tail(b))
    ELSE ByteOf(Head(a)) < ByteOf(Head(b))

PortPlaceholder == "{{.PORT}}"

\* prepareCommandWithTemplate: the placeholder of the port is replaced
prepareCommandWithTemplate(command, port) ==
    [i \in 1..Len(command) |->
        IF command[i] = PortPlaceholder THEN ToString(port) ELSE command[i]]

\* ------------------------------------------------------------------ inputs

\* a *int: the empty sequence is nil, <<n>> points to n
NoMin == <<>>

\* a command line: an executable and one argument
Run == <<"run", Space, PortPlaceholder>>
Serve == <<"serve", Space, PortPlaceholder>>

\* models.StemConfig.Env: the environment written for a command
EnvOf(command) == [CMD |-> command]

\* models.StemConfig: Name, Version, URL, MinInstances (NoMin: unset),
\* StartMessage (whether one is configured), Command, Env
Configs ==
    { [name |-> <<"s">>, version |-> <<"1">>, url |-> <<"b">>, min |-> NoMin, msg |-> FALSE,
       command |-> Run, env |-> EnvOf(Run)],
      [name |-> <<"s">>, version |-> <<"2">>, url |-> <<Slash, "a">>, min |-> <<1>>, msg |-> TRUE,
       command |-> Run, env |-> EnvOf(Run)],
      [name |-> <<"s">>, version |-> <<"2">>, url |-> <<"b">>, min |-> <<1>>, msg |-> FALSE,
       command |-> Run, env |-> EnvOf(Run)],
      [name |-> <<"s">>, version |-> <<"1">>, url |-> <<"b">>, min |-> <<0>>, msg |-> FALSE,
       command |-> Run, env |-> EnvOf(Run)] }

\* storage.StemKey
KeyOf(c) == <<c.name, c.version>>
Keys == { KeyOf(c) : c \in Configs }
NoKey == <<>>

\* models.LeafStatus
StatusStarting == "STARTING"
StatusRunning == "RUNNING"
StatusStopping == "STOPPING"
StatusUnknown == "UNKNOWN"

\* a nil *models.Leaf, a key the catalog does not have
NoLeaf == [id |-> NoStr]
NoStem == [name |-> NoStr]
NoCfg == [name |-> NoStr]
NoGraft == [state |-> "none"]

\* the leaf IDs a caller may name
LeafIDs(k) == { LeafIDOf(k[1], k[2], n) : n \in 1..MaxNano }

\* ------------------------------------------------------------------ state

VARIABLES
    stems,      \* HerbariumDB.Stems: StemKey -> models.Stem
    hap,        \* the committed HAProxy configuration: version, backends, servers
    procs,      \* the OS processes spawned for leaves: pid, port, listening
    spawned,    \* how many processes were ever spawned (the last pid)
    grafts,     \* the graft HTTP servers: key, port, state
    clock,      \* the last value time.Now().UnixNano() returned
    issued,     \* the work issued so far
    th          \* the goroutines

vars == <<stems, hap, procs, spawned, grafts, clock, issued, th>>

\* ------------------------------------------------------------------ errors

Nil == "nil"

\* ------------------------------------------------------------------ goroutines

NoTx == [backends |-> {}, servers |-> {}]

\* no call of a repository method
NoCall == [m |-> ""]

\* An idle slot.  A goroutine in flight carries the locals of the functions
\* on its call stack: stack holds the labels to return to.
\* what a program writes to stdout and stderr: a line that contains the text
\* of the start message, and a line the scanner cannot hold (scanner.Err)
NoLines == [message |-> FALSE, tooLong |-> FALSE]

\* no *os.File; an open one has the lines written to it
NoFile == [open |-> FALSE, lines |-> 0]

Idle ==
    [op |-> "idle", pc |-> "idle", stack |-> <<>>, parent |-> 0,
     key |-> NoKey, cfg |-> NoCfg, i |-> 0, pending |-> {}, stopErr |-> Nil,
     held |-> [live |-> TRUE, leaves |-> {}],
     leafID |-> NoStr, port |-> 0, pid |-> 0, backend |-> NoStr, msg |-> FALSE,
     lines |-> NoLines, messageChan |-> <<>>, errorChan |-> <<>>, logFile |-> NoFile,
     pipe |-> <<>>, command |-> NoStr, lock |-> "", call |-> NoCall, out |-> <<>>,
     replace |-> NoStr, server |-> NoStr, g |-> 0,
     verb |-> "", vb |-> NoStr, vold |-> NoStr, vnew |-> NoStr, vport |-> 0,
     ver |-> 0, tx |-> NoTx, log |-> <<>>, mwErr |-> Nil,
     err |-> Nil, ret |-> NoStr, resp |-> ""]

\* the locals of the last client verb are dead once its caller has read the result
Fresh(s) == [s EXCEPT !.log = <<>>, !.verb = "", !.vb = NoStr, !.vold = NoStr,
                      !.vnew = NoStr, !.vport = 0, !.ver = 0, !.tx = NoTx]

\* the operation ends with error e: what its caller gets, and the arguments
Done(s, e) ==
    [Idle EXCEPT !.op = s.op, !.pc = "done", !.parent = s.parent, !.key = s.key, !.g = s.g,
                 !.leafID = s.leafID, !.err = e, !.ret = IF e = Nil THEN s.ret ELSE NoStr,
                 !.resp = s.resp]

\* return to the caller: the label on top of the stack
Return(s) ==
    IF Head(s.stack) = "done" THEN Done(s, s.err)
    ELSE [s EXCEPT !.pc = Head(s.stack), !.stack = Tail(s.stack)]

\* the goroutine that takes up a new call: any idle one
FirstIdle(t) == th[t].pc = "idle" /\ \A u \in Threads : u < t => th[u].pc # "idle"

\* ------------------------------------------------------------------ HAProxy data plane

Call(c, ok) == [c |-> c, ok |-> ok]

ServersOf(cfg, b) == { sv \in cfg.servers : sv.b = b }
HasServer(cfg, b, n) == \E sv \in cfg.servers : sv.b = b /\ sv.n = n

\* a CreateBackend that posts the backend without deleting an existing one:
\* the data plane refuses a backend name it already has
CreateBackendNoDelete(cfg, b, ok) ==
    IF ok /\ b \notin cfg.backends
    THEN [cfg |-> [backends |-> cfg.backends \cup {b}, servers |-> cfg.servers],
          err |-> Nil, calls |-> <<Call("CreateBackend", TRUE)>>]
    ELSE [cfg |-> cfg, err |-> "ErrCreateBackend", calls |-> <<Call("CreateBackend", FALSE)>>]

\* HAProxyConfigurationManager.CreateBackend: an existing backend of that name
\* is deleted (with its servers), then the backend is created
CreateBackend(cfg, b, ok) ==
    IF ok
    THEN [cfg |-> [backends |-> cfg.backends \cup {b},
                   servers |-> cfg.servers \ ServersOf(cfg, b)],
          err |-> Nil, calls |-> <<Call("CreateBackend", TRUE)>>]
    ELSE [cfg |-> cfg, err |-> "ErrCreateBackend", calls |-> <<Call("CreateBackend", FALSE)>>]

\* HAProxyConfigurationManager.AddServer: any status but 201 and 202 is an error;
\* the data plane answers 404 for a backend it does not have and 409 for a
\* server name the backend already has
AddServer(cfg, b, n, port, ok) ==
    IF ok /\ b \in cfg.backends /\ ~HasServer(cfg, b, n)
    THEN [cfg |-> [cfg EXCEPT !.servers = @ \cup {[b |-> b, n |-> n, port |-> port]}],
          err |-> Nil, calls |-> <<Call("AddServer", TRUE)>>]
    ELSE [cfg |-> cfg, err |-> "ErrAddServer", calls |-> <<Call("AddServer", FALSE)>>]

\* HAProxyConfigurationManager.DeleteServer: 204 and 202 are success, and so is 404
DeleteServer(cfg, b, n, ok) ==
    IF ok
    THEN [cfg |-> [cfg EXCEPT !.servers = { sv \in @ : ~(sv.b = b /\ sv.n = n) }],
          err |-> Nil, calls |-> <<Call("DeleteServer", TRUE)>>]
    ELSE [cfg |-> cfg, err |-> "ErrDeleteServer", calls |-> <<Call("DeleteServer", FALSE)>>]

\* ------------------------------------------------------------------ HAProxy client

\* a ReplaceLeaf that goes on to AddServer after a failed DeleteServer
ReplaceLeafOpsUnchecked(cfg, b, old, new, port, o1, o2) ==
    LET d == DeleteServer(cfg, b, old, o1)
        a == AddServer(d.cfg, b, new, port, o2)
    IN [cfg |-> a.cfg, err |-> IF d.err # Nil THEN d.err ELSE a.err, calls |-> d.calls \o a.calls]

\* HAProxyClient.ReplaceLeaf, the closure: DeleteServer(old), then AddServer(new)
ReplaceLeafOps(cfg, b, old, new, port, o1, o2) ==
    LET d == DeleteServer(cfg, b, old, o1) IN
    IF d.err # Nil THEN d
    ELSE LET a == AddServer(d.cfg, b, new, port, o2) IN
         [cfg |-> a.cfg, err |-> a.err, calls |-> d.calls \o a.calls]

\* the closure each verb hands to the transaction middleware
NextOps(s, o1, o2) ==
    CASE s.verb = "BindStem" -> CreateBackend(s.tx, s.vb, o1)
      [] s.verb = "BindLeaf" -> AddServer(s.tx, s.vb, s.vnew, s.vport, o1)
      [] s.verb = "UnbindLeaf" -> DeleteServer(s.tx, s.vb, s.vold, o1)
      [] s.verb = "ReplaceLeaf" -> ReplaceLeafOps(s.tx, s.vb, s.vold, s.vnew, s.vport, o1, o2)
      [] s.verb = "UnbindStem" -> DeleteServer(s.tx, s.vb, NoStr, o1)

\* a manager calls a verb of the HAProxy client and continues at label ret
CallVerb(s, verb, b, old, new, port, ret) ==
    [Fresh(s) EXCEPT !.pc = "mw_begin", !.stack = <<ret>> \o @, !.verb = verb, !.vb = b,
                     !.vold = old, !.vnew = new, !.vport = port, !.mwErr = Nil]

\* ------------------------------------------------------------------ transaction middleware

\* a deferred function that commits whatever the closure returned
MwFinishAlwaysCommit(executionErr) == "Commit"

\* the deferred function: rollback when the closure failed, commit otherwise
MwFinish(executionErr) == IF executionErr # Nil THEN "Rollback" ELSE "Commit"

\* the value the wrapped closure returns: executionErr, whatever the deferred
\* commit or rollback returned
MwResult(executionErr, finishErr) == executionErr

\* GetCurrentConfigVersion, StartTransaction, next(transactionID); a failed
\* closure is rolled back at once (the rollback changes nothing outside the
\* transaction).  gv, st, o1, o2, rb: the data plane's answers.
MwBegin(t) ==
    /\ th[t].pc = "mw_begin"
    /\ \E gv, st, o1, o2, rb \in BOOLEAN :
         LET s == th[t]
             opened == [s EXCEPT !.ver = hap.ver,
                                 !.tx = [backends |-> hap.backends, servers |-> hap.servers]]
             r == NextOps(opened, o1, o2)
             head == <<Call("GetVersion", TRUE), Call("StartTx", TRUE), Call("next", r.err = Nil)>>
         IN
         th' = [th EXCEPT ![t] =
            IF ~gv
            THEN Return([s EXCEPT !.log = <<Call("GetVersion", FALSE)>>, !.mwErr = "ErrVersion"])
            ELSE IF ~st
            THEN Return([s EXCEPT !.ver = hap.ver,
                                  !.log = <<Call("GetVersion", TRUE), Call("StartTx", FALSE)>>,
                                  !.mwErr = "ErrStartTx"])
            ELSE IF MwFinish(r.err) = "Rollback"
            THEN Return([opened EXCEPT !.log = head \o r.calls \o <<Call("Rollback", rb)>>,
                                       !.mwErr = MwResult(r.err, IF rb THEN Nil ELSE "ErrRollback")])
            ELSE [opened EXCEPT !.pc = "mw_end", !.tx = r.cfg, !.log = head \o r.calls] ]
    /\ UNCHANGED <<stems, hap, procs, spawned, grafts, clock, issued>>

\* CommitTransaction: the data plane applies the transaction if it accepts the
\* commit (c) and no other transaction was committed since its version was read
MwEnd(t) ==
    /\ th[t].pc = "mw_end"
    /\ \E c \in BOOLEAN :
         LET s == th[t]
             applied == c /\ s.ver = hap.ver /\ hap.ver < MaxVersion
         IN
         /\ hap' = IF applied
                   THEN [ver |-> hap.ver + 1, backends |-> s.tx.backends, servers |-> s.tx.servers]
                   ELSE hap
         /\ th' = [th EXCEPT ![t] =
                Return([s EXCEPT !.log = @ \o <<Call("Commit", applied)>>,
                                 !.mwErr = MwResult(Nil, IF applied THEN Nil ELSE "ErrCommit")])]
    /\ UNCHANGED <<stems, procs, spawned, grafts, clock, issued>>

\* ------------------------------------------------------------------ catalog

\* StemRepository.FetchStem / LeafRepository.getStem
Exists(k) == stems[k] # NoStem

\* a models.Stem whose WorkingURL is the URL without its leading slash
NewStemCleanURL(c) ==
    [name |-> c.name, version |-> c.version, url |-> TrimPrefix(c.url), backend |-> c.url,
     env |-> c.env, leaves |-> {}, graft |-> NoLeaf, cfg |-> c]

\* RegisterStem's models.Stem: WorkingURL and HAProxyBackend are both
\* config.URL, Environment is config.Env
NewStem(c) ==
    [name |-> c.name, version |-> c.version, url |-> c.url, backend |-> c.url,
     env |-> c.env, leaves |-> {}, graft |-> NoLeaf, cfg |-> c]

LeafIn(leaves, id) == \E l \in leaves : l.id = id
TheLeaf(leaves, id) == CHOOSE l \in leaves : l.id = id

\* an AddLeaf that stores the leaf whether or not the ID is taken
AddLeafOverwrite(k, id, server, pid, port) ==
    IF ~Exists(k) THEN [err |-> "ErrStemNotFound", stems |-> stems]
    ELSE [err |-> Nil,
          stems |-> [stems EXCEPT ![k].leaves = { l \in @ : l.id # id } \cup
                        {[id |-> id, pid |-> pid, port |-> port, server |-> server,
                          status |-> StatusRunning]}]]

\* LeafRepository.AddLeaf: the leaf is stored with StatusRunning
AddLeaf(k, id, server, pid, port) ==
    IF ~Exists(k) THEN [err |-> "ErrStemNotFound", stems |-> stems]
    ELSE IF LeafIn(stems[k].leaves, id) THEN [err |-> "ErrLeafExists", stems |-> stems]
    ELSE [err |-> Nil,
          stems |-> [stems EXCEPT ![k].leaves = @ \cup
                        {[id |-> id, pid |-> pid, port |-> port, server |-> server,
                          status |-> StatusRunning]}]]

\* LeafRepository.UpdateLeafStatus
UpdateLeafStatus(k, id, status) ==
    IF ~Exists(k) THEN [err |-> "ErrStemNotFound", stems |-> stems]
    ELSE IF ~LeafIn(stems[k].leaves, id) THEN [err |-> "ErrLeafNotFound", stems |-> stems]
    ELSE [err |-> Nil,
          stems |-> [stems EXCEPT ![k].leaves =
                        { IF l.id = id THEN [l EXCEPT !.status = status] ELSE l : l \in @ }]]

\* LeafRepository.SetGraftNode
SetGraftNode(k, graftNode) ==
    IF ~Exists(k) THEN [err |-> "ErrStemNotFound", stems |-> stems]
    ELSE [err |-> Nil, stems |-> [stems EXCEPT ![k].graft = graftNode]]

\* a ReplaceStem that stores a new stem made from the new config
ReplaceStemWhole(k, newVersion, newConfig) ==
    IF ~Exists(k) THEN [err |-> "ErrStemNotFound", stems |-> stems]
    ELSE [err |-> Nil,
          stems |-> [stems EXCEPT ![k] = [NewStem(newConfig) EXCEPT !.version = newVersion]]]

\* StemRepository.ReplaceStem: Version and Config are assigned, the stem stays
\* under its key
ReplaceStem(k, newVersion, newConfig) ==
    IF ~Exists(k) THEN [err |-> "ErrStemNotFound", stems |-> stems]
    ELSE [err |-> Nil,
          stems |-> [stems EXCEPT ![k].version = newVersion, ![k].cfg = newConfig]]

\* LeafRepository.RemoveLeaf
RemoveLeaf(k, id) ==
    IF ~Exists(k) THEN [err |-> "ErrStemNotFound", stems |-> stems]
    ELSE IF ~LeafIn(stems[k].leaves, id) THEN [err |-> "ErrLeafNotFound", stems |-> stems]
    ELSE [err |-> Nil,
          stems |-> [stems EXCEPT ![k].leaves = { l \in @ : l.id # id }]]

\* stem.LeafInstances read through the pointer FetchStem returned: the object
\* in the catalog, or the object as DeleteStem left it
LeavesSeen(s) == IF s.held.live THEN stems[s.key].leaves ELSE s.held.leaves

\* ------------------------------------------------------------------ operating system

\* something accepts connections on the port
PortBusy(p) ==
    \/ \E pr \in procs : pr.port = p /\ pr.listening
    \/ \E g \in DOMAIN grafts : grafts[g].state = "listening" /\ grafts[g].port = p

\* findAvailablePort: the first port from startPort on which net.Listen succeeds
findAvailablePort(startPort) ==
    CHOOSE p \in Ports : /\ p >= startPort /\ ~PortBusy(p)
                         /\ \A q \in Ports : (q >= startPort /\ ~PortBusy(q)) => p <= q

\* ------------------------------------------------------------------ LeafManager.StartLeaf

\* a call of StartLeaf(stemName, version, replaceServer), continuing at ret
EnterStartLeaf(s, k, replace, ret) ==
    [Fresh(s) EXCEPT !.pc = "sl_start", !.stack = <<ret>> \o @, !.key = k, !.replace = replace,
                     !.leafID = NoStr, !.port = 0, !.pid = 0, !.err = Nil, !.ret = NoStr]

\* StartLeaf fails: it returns "" and the error, and leaves everything as it is
FailStartLeaf(s, e) == Return([Fresh(s) EXCEPT !.err = e, !.ret = NoStr])

\* leafID from time.Now().UnixNano(), then findAvailablePort(8000)
SlStart(t) ==
    /\ th[t].pc = "sl_start"
    /\ \E nano \in clock..MaxNano :
         /\ clock' = nano
         /\ th' = [th EXCEPT ![t] =
                [th[t] EXCEPT !.pc = "sl_fetch",
                              !.leafID = LeafIDOf(th[t].key[1], th[t].key[2], nano),
                              !.port = findAvailablePort(BasePort)]]
    /\ UNCHANGED <<stems, hap, procs, spawned, grafts, issued>>

\* StemRepo.FetchStem.  The stem's command names a program: what that program
\* writes to its output when it runs is fixed with it.
SlFetch(t) ==
    /\ th[t].pc = "sl_fetch"
    /\ \E message, tooLong \in BOOLEAN :
         th' = [th EXCEPT ![t] =
           IF ~Exists(th[t].key) THEN FailStartLeaf(th[t], "ErrStemNotFound")
           ELSE [th[t] EXCEPT !.pc = "sl_spawn", !.backend = stems[th[t].key].backend,
                              !.msg = stems[th[t].key].cfg.msg,
                              !.lines = [message |-> message, tooLong |-> tooLong],
                              !.command = stems[th[t].key].cfg.command]]
    /\ UNCHANGED <<stems, hap, procs, spawned, grafts, clock, issued>>

\* after startLeafInternal: ReplaceLeaf when replaceServer is given, BindLeaf otherwise
SlBind(s, pid) ==
    IF s.replace # NoStr
    THEN CallVerb([s EXCEPT !.pid = pid], "ReplaceLeaf", s.backend, s.replace, s.leafID, s.port, "sl_save")
    ELSE CallVerb([s EXCEPT !.pid = pid], "BindLeaf", s.backend, NoStr, s.leafID, s.port, "sl_save")

\* a goroutine panics.  The HTTP server recovers a panic of a handler and
\* drops the connection; any other panic ends the program with all its
\* goroutines and servers.
Panic(ts, t) ==
    IF ts[t].op = "GraftHandler"
    THEN [ts EXCEPT ![t] = Done([ts[t] EXCEPT !.resp = "aborted"], "panic")]
    ELSE [u \in Threads |-> [Idle EXCEPT !.op = ts[u].op, !.pc = "crashed"]]

\* a line the scanner cannot hold ends its loop, and scanner.Err() is sent
\* on errorChan
ScanFails(lines) == lines.tooLong

\* a reader that sends every line on messageChan
DetectsAnyLine(startMessage, lines) == TRUE

\* logAndDetectOutput: whether a line is sent on messageChan, which is when a
\* start message is configured and a line contains it
logAndDetectOutput(startMessage, lines) == startMessage /\ lines.message

\* waitForServiceToStart: the errors it can return when, within the timeout, a
\* line arrives on messageChan (message), an error on errorChan (readErr) and
\* a connection to the port is accepted (connect).  Each round takes what
\* a channel holds, and dials only when both are empty.
waitForServiceToStart(message, readErr, connect) ==
    { e \in {Nil, "ErrReadLogs", "ErrNotReady"} :
        \/ e = Nil /\ (message \/ connect)
        \/ e = "ErrReadLogs" /\ readErr
        \/ e = "ErrNotReady" /\ ~message /\ ~readErr /\ ~connect }

\* startLeafInternal: getWorkingDirectory (dir), the command split into
\* executable and arguments, cmd.Start, then waitForServiceToStart.
\* commandParts[0] of a command without fields is out of range.  A connection
\* to the port is accepted by whatever listens there.
SlSpawn(t) ==
    /\ th[t].pc = "sl_spawn"
    /\ \E dir, started, listens \in BOOLEAN :
         LET s == [th[t] EXCEPT !.lines = NoLines]
             pid == spawned + 1
             listening == listens /\ ~PortBusy(s.port)
             ready == waitForServiceToStart(logAndDetectOutput(s.msg, th[t].lines),
                                            ScanFails(th[t].lines),
                                            listening \/ PortBusy(s.port))
         IN
         IF ~dir
         THEN /\ th' = [th EXCEPT ![t] = FailStartLeaf(s, "ErrStartProcess")]
              /\ UNCHANGED <<procs, spawned, grafts>>
         ELSE IF Fields(prepareCommandWithTemplate(s.command, s.port)) = <<>>
         THEN /\ th' = Panic(th, t)
              /\ grafts' = IF s.op = "GraftHandler" THEN grafts
                           ELSE [g \in DOMAIN grafts |-> NoGraft]
              /\ UNCHANGED <<procs, spawned>>
         ELSE IF ~started \/ spawned >= MaxProcs
         THEN /\ th' = [th EXCEPT ![t] = FailStartLeaf(s, "ErrStartProcess")]
              /\ UNCHANGED <<procs, spawned, grafts>>
         ELSE /\ procs' = procs \cup {[pid |-> pid, port |-> s.port, listening |-> listening]}
              /\ spawned' = pid
              /\ \E e \in ready :
                   th' = [th EXCEPT ![t] =
                       IF e = Nil THEN SlBind(s, pid) ELSE FailStartLeaf(s, e)]
              /\ UNCHANGED grafts
    /\ UNCHANGED <<stems, hap, clock, issued>>

\* the verb returned; LeafRepo.AddLeaf
SlSave(t) ==
    /\ th[t].pc = "sl_save"
    /\ LET s == th[t]
           a == AddLeaf(s.key, s.leafID, s.leafID, s.pid, s.port)
       IN
       IF s.mwErr # Nil
       THEN /\ th' = [th EXCEPT ![t] =
                   FailStartLeaf(s, IF s.replace # NoStr THEN "ErrReplaceLeaf" ELSE "ErrBindLeaf")]
            /\ UNCHANGED stems
       ELSE /\ stems' = a.stems
            /\ th' = [th EXCEPT ![t] =
                   IF a.err # Nil THEN FailStartLeaf(s, "ErrSaveLeaf")
                   ELSE Return([Fresh(s) EXCEPT !.err = Nil, !.ret = s.leafID])]
    /\ UNCHANGED <<hap, procs, spawned, grafts, clock, issued>>

\* ------------------------------------------------------------------ LeafManager.StopLeaf

EnterStopLeaf(s, k, id, ret) ==
    [Fresh(s) EXCEPT !.pc = "st_fetch", !.stack = <<ret>> \o @, !.key = k, !.leafID = id,
                     !.err = Nil]

FailStopLeaf(s, e) == Return([Fresh(s) EXCEPT !.err = e])

\* StemRepo.FetchStem
StFetch(t) ==
    /\ th[t].pc = "st_fetch"
    /\ th' = [th EXCEPT ![t] =
           IF ~Exists(th[t].key) THEN FailStopLeaf(th[t], "ErrStemNotFound")
           ELSE [th[t] EXCEPT !.pc = "st_lookup", !.backend = stems[th[t].key].backend]]
    /\ UNCHANGED <<stems, hap, procs, spawned, grafts, clock, issued>>

\* stem.LeafInstances[leafID], then UnbindLeaf(stem.HAProxyBackend, leaf.HAProxyServer)
StLookup(t) ==
    /\ th[t].pc = "st_lookup"
    /\ LET s == th[t]
           seen == LeavesSeen(s)
           back == [s EXCEPT !.held = Idle.held]
       IN
       th' = [th EXCEPT ![t] =
           IF ~LeafIn(seen, s.leafID) THEN FailStopLeaf(back, "ErrLeafNotFound")
           ELSE LET leaf == TheLeaf(seen, s.leafID) IN
                CallVerb([back EXCEPT !.pid = leaf.pid, !.server = leaf.server],
                         "UnbindLeaf", s.backend, leaf.server, NoStr, 0, "st_kill")]
    /\ UNCHANGED <<stems, hap, procs, spawned, grafts, clock, issued>>

\* the verb returned; os.FindProcess(leaf.PID) and process.Kill()
StKill(t) ==
    /\ th[t].pc = "st_kill"
    /\ LET s == th[t] IN
       IF s.mwErr # Nil
       THEN /\ th' = [th EXCEPT ![t] = FailStopLeaf(s, "ErrUnbindLeaf")]
            /\ UNCHANGED procs
       ELSE IF \E pr \in procs : pr.pid = s.pid
       THEN /\ procs' = { pr \in procs : pr.pid # s.pid }
            /\ th' = [th EXCEPT ![t] = [Fresh(s) EXCEPT !.pc = "st_remove"]]
       ELSE /\ th' = [th EXCEPT ![t] = FailStopLeaf(s, "ErrKill")]
            /\ UNCHANGED procs
    /\ UNCHANGED <<stems, hap, spawned, grafts, clock, issued>>

\* LeafRepo.RemoveLeaf
StRemove(t) ==
    /\ th[t].pc = "st_remove"
    /\ LET s == th[t]
           r == RemoveLeaf(s.key, s.leafID)
       IN
       /\ stems' = r.stems
       /\ th' = [th EXCEPT ![t] =
              IF r.err # Nil THEN FailStopLeaf(s, "ErrRemoveLeaf")
              ELSE Return([s EXCEPT !.err = Nil])]
    /\ UNCHANGED <<hap, procs, spawned, grafts, clock, issued>>

\* a leaf process ends by itself
ProcExit ==
    /\ \E pr \in procs : procs' = procs \ {pr}
    /\ UNCHANGED <<stems, hap, spawned, grafts, clock, issued, th>>

\* ------------------------------------------------------------------ LeafManager.StartGraftNodeLeaf

EnterStartGraftNodeLeaf(s, k, ret) ==
    [Fresh(s) EXCEPT !.pc = "sg_fetch", !.stack = <<ret>> \o @, !.key = k,
                     !.leafID = GraftIDOf(k[1], k[2]), !.port = 0, !.err = Nil, !.ret = NoStr]

FailStartGraftNodeLeaf(s, e) == Return([Fresh(s) EXCEPT !.err = e, !.ret = NoStr])

\* StemRepo.FetchStem
SgFetch(t) ==
    /\ th[t].pc = "sg_fetch"
    /\ th' = [th EXCEPT ![t] =
           IF ~Exists(th[t].key) THEN FailStartGraftNodeLeaf(th[t], "ErrStemNotFound")
           ELSE [th[t] EXCEPT !.pc = "sg_get", !.backend = stems[th[t].key].backend]]
    /\ UNCHANGED <<stems, hap, procs, spawned, grafts, clock, issued>>

\* a StartGraftNodeLeaf that goes on whatever GetGraftNode returned
SgGetUnchecked(t) ==
    /\ th[t].pc = "sg_get"
    /\ th' = [th EXCEPT ![t] =
           IF ~Exists(th[t].key) THEN FailStartGraftNodeLeaf(th[t], "ErrStemNotFound")
           ELSE [th[t] EXCEPT !.pc = "sg_port"]]
    /\ UNCHANGED <<stems, hap, procs, spawned, grafts, clock, issued>>

\* LeafRepo.GetGraftNode: a graft node that is already set is an error
SgGet(t) ==
    /\ th[t].pc = "sg_get"
    /\ th' = [th EXCEPT ![t] =
           IF ~Exists(th[t].key) THEN FailStartGraftNodeLeaf(th[t], "ErrStemNotFound")
           ELSE IF stems[th[t].key].graft # NoLeaf
           THEN FailStartGraftNodeLeaf(th[t], "ErrGraftExists")
           ELSE [th[t] EXCEPT !.pc = "sg_port"]]
    /\ UNCHANGED <<stems, hap, procs, spawned, grafts, clock, issued>>

\* findAvailablePort(8000), then BindLeaf(stem.HAProxyBackend, graftNodeLeaf.ID, port)
SgPort(t) ==
    /\ th[t].pc = "sg_port"
    /\ LET port == findAvailablePort(BasePort) IN
       th' = [th EXCEPT ![t] =
           CallVerb([th[t] EXCEPT !.port = port], "BindLeaf", th[t].backend, NoStr,
                    th[t].leafID, port, "sg_server")]
    /\ UNCHANGED <<stems, hap, procs, spawned, grafts, clock, issued>>

FreeGraft == CHOOSE g \in DOMAIN grafts : grafts[g].state = "none"

\* the verb returned; createAndBindGraftNodeServer: the server and its two
\* goroutines are created, and nil is returned
SgServer(t) ==
    /\ th[t].pc = "sg_server"
    /\ LET s == th[t] IN
       IF s.mwErr # Nil
       THEN /\ th' = [th EXCEPT ![t] = FailStartGraftNodeLeaf(s, "ErrBindGraft")]
            /\ UNCHANGED grafts
       ELSE /\ \E g \in DOMAIN grafts : grafts[g].state = "none"
            /\ grafts' = [grafts EXCEPT ![FreeGraft] =
                   [state |-> "starting", key |-> s.key, id |-> s.leafID, port |-> s.port,
                    received |-> FALSE]]
            /\ th' = [th EXCEPT ![t] = [Fresh(s) EXCEPT !.pc = "sg_set"]]
    /\ UNCHANGED <<stems, hap, procs, spawned, clock, issued>>

\* LeafRepo.SetGraftNode
SgSet(t) ==
    /\ th[t].pc = "sg_set"
    /\ LET s == th[t] IN
       IF ~Exists(s.key)
       THEN /\ th' = [th EXCEPT ![t] = FailStartGraftNodeLeaf(s, "ErrSaveGraft")]
            /\ UNCHANGED stems
       ELSE /\ stems' = [stems EXCEPT ![s.key].graft =
                   [id |-> s.leafID, pid |-> 0, port |-> s.port, server |-> s.leafID,
                    status |-> StatusRunning]]
            /\ th' = [th EXCEPT ![t] = Return([s EXCEPT !.err = Nil, !.ret = s.leafID])]
    /\ UNCHANGED <<hap, procs, spawned, grafts, clock, issued>>

\* ------------------------------------------------------------------ the graft server

\* a server nobody refers to any more
Sweep(gs, ts) ==
    [g \in DOMAIN gs |->
        IF gs[g].state = "closed" /\ ~\E t \in Threads : ts[t].g = g THEN NoGraft ELSE gs[g]]

\* server.ListenAndServe in its goroutine: it fails when the port was taken meanwhile
GraftListen(g) ==
    /\ grafts[g].state = "starting"
    /\ grafts' = Sweep([grafts EXCEPT ![g].state =
                        IF PortBusy(grafts[g].port) THEN "closed" ELSE "listening"], th)
    /\ UNCHANGED <<stems, hap, procs, spawned, clock, issued, th>>

\* a request arrives: the handler starts the real instance with
\* StartLeaf(stem.Name, stem.Version, &graftNodeLeaf.ID)
GraftRequest(t, g) ==
    /\ FirstIdle(t)
    /\ issued + RequestWork <= MaxWork
    /\ issued' = issued + RequestWork
    /\ grafts[g].state = "listening"
    /\ th' = [th EXCEPT ![t] =
           EnterStartLeaf([Idle EXCEPT !.op = "GraftHandler", !.g = g, !.stack = <<"done">>],
                          grafts[g].key, grafts[g].id, "gh_find")]
    /\ UNCHANGED <<stems, hap, procs, spawned, grafts, clock>>

\* the handler answers 500 and returns
FailHandler(s, e) == Return([Fresh(s) EXCEPT !.err = e, !.resp = "500"])

\* StartLeaf returned; LeafRepo.FindLeafByID
GhFind(t) ==
    /\ th[t].pc = "gh_find"
    /\ LET s == th[t] IN
       th' = [th EXCEPT ![t] =
           IF s.err # Nil THEN FailHandler(s, "ErrStartReal")
           ELSE IF ~Exists(s.key) \/ ~LeafIn(stems[s.key].leaves, s.ret)
           THEN FailHandler(s, "ErrFindReal")
           ELSE [s EXCEPT !.pc = "gh_clear", !.port = TheLeaf(stems[s.key].leaves, s.ret).port]]
    /\ UNCHANGED <<stems, hap, procs, spawned, grafts, clock, issued>>

\* LeafRepo.ClearGraftNode
GhClear(t) ==
    /\ th[t].pc = "gh_clear"
    /\ LET s == th[t] IN
       IF ~Exists(s.key)
       THEN /\ th' = [th EXCEPT ![t] = FailHandler(s, "ErrClearGraft")]
            /\ UNCHANGED stems
       ELSE /\ stems' = [stems EXCEPT ![s.key].graft = NoLeaf]
            /\ th' = [th EXCEPT ![t] = [s EXCEPT !.pc = "gh_proxy"]]
    /\ UNCHANGED <<hap, procs, spawned, grafts, clock, issued>>

\* proxy.ServeHTTP: the answer of whatever listens on the real leaf's port,
\* 502 when nothing does
GhProxy(t) ==
    /\ th[t].pc = "gh_proxy"
    /\ th' = [th EXCEPT ![t] =
           [th[t] EXCEPT !.pc = "gh_signal",
                         !.resp = IF PortBusy(th[t].port) THEN "proxied" ELSE "502"]]
    /\ UNCHANGED <<stems, hap, procs, spawned, grafts, clock, issued>>

\* shutdownChan <- struct{}{}: the channel is unbuffered and the other
\* goroutine receives from it once
GhSignal(t) ==
    /\ th[t].pc = "gh_signal"
    /\ ~grafts[th[t].g].received
    /\ grafts' = [grafts EXCEPT ![th[t].g].received = TRUE]
    /\ th' = [th EXCEPT ![t] = Return([th[t] EXCEPT !.err = Nil])]
    /\ UNCHANGED <<stems, hap, procs, spawned, clock, issued>>

\* <-shutdownChan was received: server.Shutdown closes the listener
GraftShutdown(g) ==
    /\ grafts[g].state = "listening"
    /\ grafts[g].received
    /\ grafts' = Sweep([grafts EXCEPT ![g].state = "closed"], th)
    /\ UNCHANGED <<stems, hap, procs, spawned, clock, issued, th>>

\* ------------------------------------------------------------------ StemManager.RegisterStem

CallRegisterStem(t, c) ==
    /\ FirstIdle(t)
    /\ issued + CallWork <= MaxWork
    /\ issued' = issued + CallWork
    /\ th' = [th EXCEPT ![t] =
           [Idle EXCEPT !.op = "RegisterStem", !.pc = "rs_fetch", !.cfg = c, !.key = KeyOf(c)]]
    /\ UNCHANGED <<stems, hap, procs, spawned, grafts, clock>>

\* a RegisterStem that binds the stem without looking for the key first
RsFetchUnchecked(t) ==
    /\ th[t].pc = "rs_fetch"
    /\ th' = [th EXCEPT ![t] =
           CallVerb(th[t], "BindStem", TrimPrefix(th[t].cfg.url), NoStr, NoStr, 0, "rs_save")]
    /\ UNCHANGED <<stems, hap, procs, spawned, grafts, clock, issued>>

\* StemRepo.FetchStem: the stem must not exist; then BindStem(cleanURL)
RsFetch(t) ==
    /\ th[t].pc = "rs_fetch"
    /\ th' = [th EXCEPT ![t] =
           IF Exists(th[t].key) THEN Done(th[t], "ErrAlreadyExists")
           ELSE CallVerb(th[t], "BindStem", TrimPrefix(th[t].cfg.url), NoStr, NoStr, 0, "rs_save")]
    /\ UNCHANGED <<stems, hap, procs, spawned, grafts, clock, issued>>

\* what RegisterStem does once the stem is saved: MinInstances leaves, a
\* graft node when MinInstances is nil, nothing when it is 0
RsAfterSave(s) ==
    IF s.cfg.min # NoMin /\ Head(s.cfg.min) > 0
    THEN EnterStartLeaf([s EXCEPT !.i = 0, !.stack = <<"done">>], s.key, NoStr, "rs_leaf")
    ELSE IF s.cfg.min = NoMin
    THEN EnterStartGraftNodeLeaf([s EXCEPT !.stack = <<"done">>], s.key, "rs_graft")
    ELSE Done(s, Nil)

\* the verb returned; StemRepo.SaveStem
RsSave(t) ==
    /\ th[t].pc = "rs_save"
    /\ LET s == th[t] IN
       IF s.mwErr # Nil
       THEN /\ th' = [th EXCEPT ![t] = Done(s, "ErrBindStem")]
            /\ UNCHANGED stems
       ELSE IF Exists(s.key)
       THEN /\ th' = [th EXCEPT ![t] = Done(s, "ErrSaveStem")]
            /\ UNCHANGED stems
       ELSE /\ stems' = [stems EXCEPT ![s.key] = NewStem(s.cfg)]
            /\ th' = [th EXCEPT ![t] = RsAfterSave(Fresh(s))]
    /\ UNCHANGED <<hap, procs, spawned, grafts, clock, issued>>

\* StartLeaf returned to the loop over MinInstances
RsLeaf(t) ==
    /\ th[t].pc = "rs_leaf"
    /\ LET s == th[t] IN
       th' = [th EXCEPT ![t] =
           IF s.err # Nil THEN Done(s, "ErrStartLeaf")
           ELSE IF s.i + 1 < Head(s.cfg.min)
           THEN EnterStartLeaf([s EXCEPT !.i = @ + 1, !.stack = <<"done">>], s.key, NoStr, "rs_leaf")
           ELSE Done(s, Nil)]
    /\ UNCHANGED <<stems, hap, procs, spawned, grafts, clock, issued>>

\* StartGraftNodeLeaf returned
RsGraft(t) ==
    /\ th[t].pc = "rs_graft"
    /\ th' = [th EXCEPT ![t] =
           Done(th[t], IF th[t].err # Nil THEN "ErrStartGraft" ELSE Nil)]
    /\ UNCHANGED <<stems, hap, procs, spawned, grafts, clock, issued>>

\* StemManager.FetchStemInfo: StemRepo.FetchStem on the catalog db
FetchStemInfo(db, k) ==
    IF db[k] # NoStem THEN [stem |-> db[k], err |-> Nil]
    ELSE [stem |-> NoStem, err |-> "ErrStemNotFound"]

\* ------------------------------------------------------------------ StemManager.UnregisterStem

CallUnregisterStem(t, k) ==
    /\ FirstIdle(t)
    /\ issued + CallWork <= MaxWork
    /\ issued' = issued + CallWork
    /\ th' = [th EXCEPT ![t] = [Idle EXCEPT !.op = "UnregisterStem", !.pc = "ur_fetch", !.key = k]]
    /\ UNCHANGED <<stems, hap, procs, spawned, grafts, clock>>

\* StemRepo.FetchStem
UrFetch(t) ==
    /\ th[t].pc = "ur_fetch"
    /\ th' = [th EXCEPT ![t] =
           IF ~Exists(th[t].key) THEN Done(th[t], "ErrStemNotFound")
           ELSE [th[t] EXCEPT !.pc = "ur_leafs", !.backend = stems[th[t].key].backend]]
    /\ UNCHANGED <<stems, hap, procs, spawned, grafts, clock, issued>>

\* sort.Slice(leafs, func(i, j) { return leafs[i].ID < leafs[j].ID })
RECURSIVE SortLeafs(_)
SortLeafs(leafs) ==
    IF leafs = {} THEN <<>>
    ELSE LET first == CHOOSE x \in leafs : \A y \in leafs \ {x} : StrLess(x.id, y.id)
         IN <<first>> \o SortLeafs(leafs \ {first})

\* a GetRunningLeafs that returns every leaf of the stem
GetRunningLeafsAll(leafInstances) == SortLeafs(leafInstances)

\* LeafManager.GetRunningLeafs, after FetchStem: the leaves of
\* stem.LeafInstances with StatusRunning, sorted by ID
GetRunningLeafs(leafInstances) ==
    SortLeafs({ x \in leafInstances : x.status = StatusRunning })

\* the IDs of a list of leaves
IDsOf(leafs) == { leafs[i].id : i \in 1..Len(leafs) }

UrLeafs(t) ==
    /\ th[t].pc = "ur_leafs"
    /\ th' = [th EXCEPT ![t] =
           IF ~Exists(th[t].key) THEN Done(th[t], "ErrRunningLeafs")
           ELSE [th[t] EXCEPT !.pc = "ur_wait", !.pending = IDsOf(GetRunningLeafs(stems[th[t].key].leaves)),
                              !.stopErr = Nil]]
    /\ UNCHANGED <<stems, hap, procs, spawned, grafts, clock, issued>>

\* go func(leafID) { StopLeaf(...) }: the goroutine of one leaf starts to run
UrSpawn(t, u) ==
    /\ th[t].pc = "ur_wait"
    /\ FirstIdle(u)
    /\ \E id \in th[t].pending :
         th' = [th EXCEPT
                  ![t].pending = @ \ {id},
                  ![u] = EnterStopLeaf([Idle EXCEPT !.op = "StopLeafAsync", !.parent = t],
                                       th[t].key, id, "ur_stopped")]
    /\ UNCHANGED <<stems, hap, procs, spawned, grafts, clock, issued>>

\* StopLeaf returned in its goroutine: stopError.Store(err), wg.Done()
UrStopped(u) ==
    /\ th[u].pc = "ur_stopped"
    /\ th' = [th EXCEPT ![u] = Idle,
                        ![th[u].parent].stopErr = IF th[u].err # Nil THEN th[u].err ELSE @]
    /\ UNCHANGED <<stems, hap, procs, spawned, grafts, clock, issued>>

\* an UnregisterStem that goes on without waiting for the stops it started
UrWaitEarly(t) ==
    /\ th[t].pc = "ur_wait"
    /\ th[t].pending = {}
    /\ th' = [th EXCEPT ![t] =
           IF th[t].stopErr # Nil THEN Done(th[t], "ErrStopLeafs")
           ELSE CallVerb(th[t], "UnbindStem", th[t].backend, NoStr, NoStr, 0, "ur_delete")]
    /\ UNCHANGED <<stems, hap, procs, spawned, grafts, clock, issued>>

\* wg.Wait() returned: an error of a stop ends the operation, otherwise UnbindStem
UrWait(t) ==
    /\ th[t].pc = "ur_wait"
    /\ th[t].pending = {}
    /\ ~\E u \in Threads : th[u].parent = t
    /\ th' = [th EXCEPT ![t] =
           IF th[t].stopErr # Nil THEN Done(th[t], "ErrStopLeafs")
           ELSE CallVerb(th[t], "UnbindStem", th[t].backend, NoStr, NoStr, 0, "ur_delete")]
    /\ UNCHANGED <<stems, hap, procs, spawned, grafts, clock, issued>>

\* the verb returned; StemRepo.DeleteStem.  The goroutines that hold the
\* pointer to the deleted stem keep the object as it is now.
UrDelete(t) ==
    /\ th[t].pc = "ur_delete"
    /\ LET s == th[t] IN
       IF s.mwErr # Nil
       THEN /\ th' = [th EXCEPT ![t] = Done(s, "ErrUnbindStem")]
            /\ UNCHANGED stems
       ELSE IF ~Exists(s.key)
       THEN /\ th' = [th EXCEPT ![t] = Done(s, "ErrDeleteStem")]
            /\ UNCHANGED stems
       ELSE /\ stems' = [stems EXCEPT ![s.key] = NoStem]
            /\ th' = [u \in Threads |->
                   IF u = t THEN Done(s, Nil)
                   ELSE IF th[u].pc = "st_lookup" /\ th[u].key = s.key /\ th[u].held.live
                   THEN [th[u] EXCEPT !.held = [live |-> FALSE, leaves |-> stems[s.key].leaves]]
                   ELSE th[u]]
    /\ UNCHANGED <<hap, procs, spawned, grafts, clock, issued>>

\* ------------------------------------------------------------------ callers

CallStartLeaf(t, k) ==
    /\ FirstIdle(t)
    /\ issued + CallWork <= MaxWork
    /\ issued' = issued + CallWork
    /\ th' = [th EXCEPT ![t] = EnterStartLeaf([Idle EXCEPT !.op = "StartLeaf"], k, NoStr, "done")]
    /\ UNCHANGED <<stems, hap, procs, spawned, grafts, clock>>

CallStartGraftNodeLeaf(t, k) ==
    /\ FirstIdle(t)
    /\ issued + CallWork <= MaxWork
    /\ issued' = issued + CallWork
    /\ th' = [th EXCEPT ![t] = EnterStartGraftNodeLeaf([Idle EXCEPT !.op = "StartGraftNodeLeaf"], k, "done")]
    /\ UNCHANGED <<stems, hap, procs, spawned, grafts, clock>>

CallStopLeaf(t, k, id) ==
    /\ FirstIdle(t)
    /\ issued + CallWork <= MaxWork
    /\ issued' = issued + CallWork
    /\ th' = [th EXCEPT ![t] = EnterStopLeaf([Idle EXCEPT !.op = "StopLeaf"], k, id, "done")]
    /\ UNCHANGED <<stems, hap, procs, spawned, grafts, clock>>

\* the operation returned to its caller, the handler to the HTTP server
Finish(t) ==
    /\ th[t].pc = "done"
    /\ th' = [th EXCEPT ![t] = Idle]
    /\ grafts' = Sweep(grafts, th')
    /\ UNCHANGED <<stems, hap, procs, spawned, clock, issued>>

\* ------------------------------------------------------------------ specification

Init ==
    /\ stems = [k \in Keys |-> NoStem]
    /\ hap = [ver |-> 0, backends |-> {}, servers |-> {}]
    /\ procs = {}
    /\ spawned = 0
    /\ grafts = [g \in 1..MaxGraftServers |-> NoGraft]
    /\ clock = 1
    /\ issued = 0
    /\ th = [t \in Threads |-> Idle]

Next ==
    \/ \E t \in Threads : \E c \in Configs : CallRegisterStem(t, c)
    \/ \E t \in Threads : \E k \in Keys : CallUnregisterStem(t, k)
    \/ \E t \in Threads : \E k \in Keys : CallStartLeaf(t, k)
    \/ \E t \in Threads : \E k \in Keys : CallStartGraftNodeLeaf(t, k)
    \/ \E t \in Threads : \E k \in Keys : \E id \in LeafIDs(k) : CallStopLeaf(t, k, id)
    \/ \E t \in Threads : \E g \in DOMAIN grafts : GraftRequest(t, g)
    \/ \E t \in Threads : MwBegin(t)
    \/ \E t \in Threads : MwEnd(t)
    \/ \E t \in Threads : SlStart(t)
    \/ \E t \in Threads : SlFetch(t)
    \/ \E t \in Threads : SlSpawn(t)
    \/ \E t \in Threads : SlSave(t)
    \/ \E t \in Threads : StFetch(t)
    \/ \E t \in Threads : StLookup(t)
    \/ \E t \in Threads : StKill(t)
    \/ \E t \in Threads : StRemove(t)
    \/ \E t \in Threads : SgFetch(t)
    \/ \E t \in Threads : SgGet(t)
    \/ \E t \in Threads : SgPort(t)
    \/ \E t \in Threads : SgServer(t)
    \/ \E t \in Threads : SgSet(t)
    \/ \E t \in Threads : GhFind(t)
    \/ \E t \in Threads : GhClear(t)
    \/ \E t \in Threads : GhProxy(t)
    \/ \E t \in Threads : GhSignal(t)
    \/ \E t \in Threads : RsFetch(t)
    \/ \E t \in Threads : RsSave(t)
    \/ \E t \in Threads : RsLeaf(t)
    \/ \E t \in Threads : RsGraft(t)
    \/ \E t \in Threads : UrFetch(t)
    \/ \E t \in Threads : UrLeafs(t)
    \/ \E t, u \in Threads : UrSpawn(t, u)
    \/ \E u \in Threads : UrStopped(u)
    \/ \E t \in Threads : UrWait(t)
    \/ \E t \in Threads : UrDelete(t)
    \/ \E t \in Threads : Finish(t)
    \/ \E g \in DOMAIN grafts : GraftListen(g)
    \/ \E g \in DOMAIN grafts : GraftShutdown(g)
    \/ ProcExit

Spec == Init /\ [][Next]_vars

\* ------------------------------------------------------------------ a stem with two leaves

\* the stem (s, 1) registered with MinInstances = 0, and two leaves started
\* on it with StartLeaf
LoadedKey == <<<<"s">>, <<"1">>>>
LoadedCfg ==
    [name |-> <<"s">>, version |-> <<"1">>, url |-> <<"b">>, min |-> <<0>>, msg |-> FALSE,
     command |-> Run, env |-> EnvOf(Run)]

LoadedLeaf(n) ==
    [id |-> LeafIDOf(<<"s">>, <<"1">>, n), pid |-> n, port |-> BasePort + n - 1,
     server |-> LeafIDOf(<<"s">>, <<"1">>, n), status |-> StatusRunning]

\* the catalog, the committed configuration and the processes after
\* RegisterStem and two StartLeaf; the versions of the configuration are
\* counted from here
InitLoaded ==
    /\ stems = [k \in Keys |->
                  IF k = LoadedKey
                  THEN [NewStem(LoadedCfg) EXCEPT !.leaves = {LoadedLeaf(1), LoadedLeaf(2)}]
                  ELSE NoStem]
    /\ hap = [ver |-> 0, backends |-> {<<"b">>},
              servers |-> { [b |-> <<"b">>, n |-> LoadedLeaf(n).server, port |-> LoadedLeaf(n).port] :
                            n \in 1..2 }]
    /\ procs = { [pid |-> n, port |-> LoadedLeaf(n).port, listening |-> TRUE] : n \in 1..2 }
    /\ spawned = 2
    /\ grafts = [g \in 1..MaxGraftServers |-> NoGraft]
    /\ clock = MaxNano
    /\ issued = 0
    /\ th = [t \in Threads |-> Idle]

\* UnregisterStem and StopLeaf, and what they call
NextUnregister ==
    \/ \E t \in Threads : \E k \in Keys : CallUnregisterStem(t, k)
    \/ \E t \in Threads : \E k \in Keys : \E id \in LeafIDs(k) : CallStopLeaf(t, k, id)
    \/ \E t \in Threads : MwBegin(t)
    \/ \E t \in Threads : MwEnd(t)
    \/ \E t \in Threads : StFetch(t)
    \/ \E t \in Threads : StLookup(t)
    \/ \E t \in Threads : StKill(t)
    \/ \E t \in Threads : StRemove(t)
    \/ \E t \in Threads : UrFetch(t)
    \/ \E t \in Threads : UrLeafs(t)
    \/ \E t, u \in Threads : UrSpawn(t, u)
    \/ \E u \in Threads : UrStopped(u)
    \/ \E t \in Threads : UrWait(t)
    \/ \E t \in Threads : UrDelete(t)
    \/ \E t \in Threads : Finish(t)
    \/ ProcExit

SpecUnregister == InitLoaded /\ [][NextUnregister]_vars

\* ------------------------------------------------------------------ the catalog lock

\* HerbariumDB.mu, a sync.RWMutex: the goroutines that are inside WithLock
\* ("W") and inside WithRLock ("R")
Holders(ts, kind) == { t \in Threads : ts[t].lock = kind }

\* mu.Lock() returns when nobody holds the lock, mu.RLock() when no writer does
CanLock(ts, kind) ==
    /\ Holders(ts, "W") = {}
    /\ kind = "W" => Holders(ts, "R") = {}

\* a WithLock that unlocks after fn() only when fn returned nil
UnlockOnSuccess(kind, err) == IF err # Nil THEN kind ELSE ""

\* defer s.mu.Unlock() / defer s.mu.RUnlock(): what the goroutine holds after
\* fn() returned err
Unlock(kind, err) == ""

\* the methods that run in WithRLock; all others run in WithLock
LockKind(m) == IF m \in {"FindStem"} THEN "R" ELSE "W"

\* ------------------------------------------------------------------ repository calls

RepoWork == 1

\* what ReplaceStem is called with
ReplacedVersion == <<"2">>
ReplacedCfg ==
    [name |-> <<"s">>, version |-> <<"2">>, url |-> <<"a">>, min |-> <<1>>, msg |-> TRUE,
     command |-> Serve, env |-> EnvOf(Serve)]

\* the leaf a caller adds for the clock value n
LeafArg(k, n) ==
    [id |-> LeafIDOf(k[1], k[2], n), pid |-> n, port |-> BasePort + n - 1,
     server |-> LeafIDOf(k[1], k[2], n)]

\* the graft node StartGraftNodeLeaf stores for a stem
GraftArg(k) ==
    [id |-> GraftIDOf(k[1], k[2]), pid |-> 0, port |-> BasePort + MaxProcs,
     server |-> GraftIDOf(k[1], k[2]), status |-> StatusRunning]

\* the calls of repository methods: method, key, leaf number, status
RepoCalls ==
    { [m |-> m, key |-> k, n |-> n, status |-> StatusRunning] :
        m \in {"AddLeaf"}, k \in Keys, n \in 1..MaxNano }
    \cup { [m |-> "UpdateLeafStatus", key |-> k, n |-> n, status |-> st] :
        k \in Keys, n \in 1..MaxNano, st \in {StatusStarting, StatusStopping, StatusUnknown} }
    \cup { [m |-> m, key |-> k, n |-> 0, status |-> StatusRunning] :
        m \in {"ReplaceStem", "SetGraftNode", "FindStem"}, k \in Keys }

\* fn(): the closure of the method, on the catalog
Apply(c) ==
    CASE c.m = "AddLeaf" ->
            AddLeaf(c.key, LeafArg(c.key, c.n).id, LeafArg(c.key, c.n).server,
                    LeafArg(c.key, c.n).pid, LeafArg(c.key, c.n).port)
      [] c.m = "UpdateLeafStatus" -> UpdateLeafStatus(c.key, LeafArg(c.key, c.n).id, c.status)
      [] c.m = "ReplaceStem" -> ReplaceStem(c.key, ReplacedVersion, ReplacedCfg)
      [] c.m = "SetGraftNode" -> SetGraftNode(c.key, GraftArg(c.key))
      [] c.m = "FindStem" -> [err |-> FetchStemInfo(stems, c.key).err, stems |-> stems]

\* a goroutine calls a repository method
CallRepo(t, c) ==
    /\ FirstIdle(t)
    /\ issued + RepoWork <= MaxWork
    /\ issued' = issued + RepoWork
    /\ th' = [th EXCEPT ![t] = [Idle EXCEPT !.op = "Repo", !.pc = "repo_lock", !.key = c.key,
                                            !.call = c]]
    /\ UNCHANGED <<stems, hap, procs, spawned, grafts, clock>>

\* WithLock / WithRLock: s.mu.Lock() or s.mu.RLock() returns
RepoLock(t) ==
    /\ th[t].pc = "repo_lock"
    /\ CanLock(th, LockKind(th[t].call.m))
    /\ th' = [th EXCEPT ![t] = [th[t] EXCEPT !.pc = "repo_run", !.lock = LockKind(th[t].call.m)]]
    /\ UNCHANGED <<stems, hap, procs, spawned, grafts, clock, issued>>

\* return fn(), and the deferred unlock
RepoRun(t) ==
    /\ th[t].pc = "repo_run"
    /\ LET s == th[t]
           r == Apply(s.call)
       IN
       /\ stems' = r.stems
       /\ th' = [th EXCEPT ![t] =
              [Done(s, r.err) EXCEPT !.call = s.call, !.lock = Unlock(s.lock, r.err)]]
    /\ UNCHANGED <<hap, procs, spawned, grafts, clock, issued>>

\* a goroutine calls LeafManager.GetRunningLeafs
CallGetRunningLeafs(t, k) ==
    /\ FirstIdle(t)
    /\ issued + RepoWork <= MaxWork
    /\ issued' = issued + RepoWork
    /\ th' = [th EXCEPT ![t] = [Idle EXCEPT !.op = "GetRunningLeafs", !.pc = "gr_fetch", !.key = k]]
    /\ UNCHANGED <<stems, hap, procs, spawned, grafts, clock>>

\* StemRepo.FetchStem
GrFetch(t) ==
    /\ th[t].pc = "gr_fetch"
    /\ th' = [th EXCEPT ![t] =
           IF ~Exists(th[t].key) THEN Done(th[t], "ErrStemNotFound")
           ELSE [th[t] EXCEPT !.pc = "gr_leafs"]]
    /\ UNCHANGED <<stems, hap, procs, spawned, grafts, clock, issued>>

\* the loop over stem.LeafInstances, the sort, and the copies that are returned
GrLeafs(t) ==
    /\ th[t].pc = "gr_leafs"
    /\ th' = [th EXCEPT ![t] =
           [Done(th[t], Nil) EXCEPT !.out = GetRunningLeafs(LeavesSeen(th[t]))]]
    /\ UNCHANGED <<stems, hap, procs, spawned, grafts, clock, issued>>

\* ------------------------------------------------------------------ specification: repositories

\* the catalog, the committed configuration and the processes after
\* RegisterStem of (s, 1) and one StartLeaf
InitRepo ==
    /\ stems = [k \in Keys |->
                  IF k = LoadedKey THEN [NewStem(LoadedCfg) EXCEPT !.leaves = {LoadedLeaf(1)}]
                  ELSE NoStem]
    /\ hap = [ver |-> 0, backends |-> {<<"b">>},
              servers |-> { [b |-> <<"b">>, n |-> LoadedLeaf(1).server, port |-> LoadedLeaf(1).port] }]
    /\ procs = { [pid |-> 1, port |-> LoadedLeaf(1).port, listening |-> TRUE] }
    /\ spawned = 1
    /\ grafts = [g \in 1..MaxGraftServers |-> NoGraft]
    /\ clock = 1
    /\ issued = 0
    /\ th = [t \in Threads |-> Idle]

\* the repository methods called by themselves and by StartLeaf and
\* GetRunningLeafs.  A method of a manager's step runs when its lock is free.
NextRepo ==
    \/ \E t \in Threads : \E c \in RepoCalls : CallRepo(t, c)
    \/ \E t \in Threads : RepoLock(t)
    \/ \E t \in Threads : RepoRun(t)
    \/ \E t \in Threads : \E k \in Keys : CallGetRunningLeafs(t, k)
    \/ \E t \in Threads : CanLock(th, "R") /\ GrFetch(t)
    \/ \E t \in Threads : GrLeafs(t)
    \/ \E t \in Threads : \E k \in Keys : CallStartLeaf(t, k)
    \/ \E t \in Threads : SlStart(t)
    \/ \E t \in Threads : CanLock(th, "R") /\ SlFetch(t)
    \/ \E t \in Threads : SlSpawn(t)
    \/ \E t \in Threads : MwBegin(t)
    \/ \E t \in Threads : MwEnd(t)
    \/ \E t \in Threads : CanLock(th, "W") /\ SlSave(t)
    \/ \E t \in Threads : Finish(t)

SpecRepo == InitRepo /\ [][NextRepo]_vars

\* ------------------------------------------------------------------ specification: commands

\* commands without a field: empty, or white space only
BlankCommands == { <<>>, <<Space>>, <<Space, Space>> }

BlankKey == <<<<"s">>, <<"1">>>>
RunKey == <<<<"s">>, <<"2">>>>

\* a config of the key k with the command c, and MinInstances = 0
CommandCfg(k, url, c) ==
    [name |-> k[1], version |-> k[2], url |-> url, min |-> <<0>>, msg |-> FALSE, command |-> c,
     env |-> EnvOf(c)]

\* the catalog and the committed configuration after RegisterStem of a
\* config whose command has no field and of one whose command has
InitCommand ==
    /\ \E c \in BlankCommands :
         stems = [k \in Keys |->
                    IF k = BlankKey THEN NewStem(CommandCfg(k, <<"b">>, c))
                    ELSE IF k = RunKey THEN NewStem(CommandCfg(k, <<"a">>, Run))
                    ELSE NoStem]
    /\ hap = [ver |-> 0, backends |-> {<<"a">>, <<"b">>}, servers |-> {}]
    /\ procs = {}
    /\ spawned = 0
    /\ grafts = [g \in 1..MaxGraftServers |-> NoGraft]
    /\ clock = 1
    /\ issued = 0
    /\ th = [t \in Threads |-> Idle]

\* StartLeaf, and what it calls
NextCommand ==
    \/ \E t \in Threads : \E k \in Keys : CallStartLeaf(t, k)
    \/ \E t \in Threads : SlStart(t)
    \/ \E t \in Threads : SlFetch(t)
    \/ \E t \in Threads : SlSpawn(t)
    \/ \E t \in Threads : MwBegin(t)
    \/ \E t \in Threads : MwEnd(t)
    \/ \E t \in Threads : SlSave(t)
    \/ \E t \in Threads : Finish(t)
    \/ ProcExit

SpecCommand == InitCommand /\ [][NextCommand]_vars

\* ------------------------------------------------------------------ properties: middleware

Last(l) == l[Len(l)]

\* the calls a transaction has made are complete: the verb has returned
Finished(s) == s.log # <<>> /\ s.pc # "mw_end"

Ends(l) == { i \in 1..Len(l) : l[i].c \in {"Commit", "Rollback"} }

\* C9: every transaction calls GetVersion, StartTx, next, and then exactly one
\* of Commit and Rollback: Commit iff next returned no error.  After a failed
\* GetVersion nothing else is called; after a failed StartTx neither next nor
\* Commit nor Rollback is called.
MiddlewareOrder ==
    \A t \in Threads :
        LET l == th[t].log IN
        l # <<>> =>
            /\ l[1].c = "GetVersion"
            /\ \A i \in 2..Len(l) : l[i].c # "GetVersion"
            /\ ~l[1].ok => Len(l) = 1
            /\ l[1].ok => /\ Len(l) >= 2
                          /\ l[2].c = "StartTx"
                          /\ \A i \in 3..Len(l) : l[i].c # "StartTx"
                          /\ ~l[2].ok => Len(l) = 2
            /\ (l[1].ok /\ l[2].ok) =>
                  /\ Len(l) >= 3
                  /\ l[3].c = "next"
                  /\ \A i \in 4..Len(l) : l[i].c # "next"
                  /\ IF th[t].pc = "mw_end"
                     THEN Ends(l) = {}
                     ELSE /\ Ends(l) = {Len(l)}
                          /\ Last(l).c = "Commit" <=> l[3].ok
                          /\ Last(l).c = "Rollback" <=> ~l[3].ok

\* a closure that failed was rolled back while another transaction was committed
MiddlewareOrderSeen ==
    \E t, u \in Threads :
        /\ Finished(th[t]) /\ Last(th[t].log).c = "Rollback"
        /\ Finished(th[u]) /\ Last(th[u].log).c = "Commit"

ErrOfCall(c) ==
    CASE c = "CreateBackend" -> "ErrCreateBackend"
      [] c = "AddServer" -> "ErrAddServer"
      [] c = "DeleteServer" -> "ErrDeleteServer"

\* the error of the closure: that of the data-plane call that failed in it
ClosureErr(l) == ErrOfCall(l[CHOOSE i \in 4..Len(l) : ~l[i].ok /\ l[i].c \notin {"Commit", "Rollback"}].c)

\* C10: the middleware returns the first error in the order version fetch,
\* transaction start, closure, commit/rollback: the error of next also when
\* Rollback fails, and an error when next succeeds and Commit fails.
MiddlewareFirstError ==
    \A t \in Threads :
        LET l == th[t].log
            r == th[t].mwErr
        IN
        Finished(th[t]) =>
            IF ~l[1].ok THEN r = "ErrVersion"
            ELSE IF ~l[2].ok THEN r = "ErrStartTx"
            ELSE IF ~l[3].ok THEN r = ClosureErr(l)
            ELSE IF ~Last(l).ok THEN r # Nil
            ELSE r = Nil

\* ------------------------------------------------------------------ properties: leaves and HAProxy

RunningLeaves(k) == { l \in stems[k].leaves : l.status = StatusRunning }

\* C1: every leaf stored in LeafInstances with StatusRunning has a server named
\* leaf.HAProxyServer in the committed configuration of its stem's backend.
RunningLeafIsBound ==
    \A k \in Keys :
        Exists(k) => \A l \in RunningLeaves(k) : HasServer(hap, stems[k].backend, l.server)

\* thread t returns from function f (whose last label is pc) without error
Returns(t, pc) == th[t].pc = pc /\ th'[t].pc # pc /\ th'[t].err = Nil

\* C2: when StartLeaf returns a leaf ID without error the committed
\* configuration of the stem's backend contains a server of that name, and when
\* StopLeaf returns without error it contains none, whatever the data plane
\* answered.
StartStopCoherent ==
    [][\A t \in Threads :
          /\ Returns(t, "sl_save") => HasServer(hap', th[t].backend, th[t].leafID)
          /\ Returns(t, "st_remove") => ~HasServer(hap', th[t].backend, th[t].leafID)]_vars

\* ------------------------------------------------------------------ properties: ReplaceLeaf

Called(l, c) == \E i \in 1..Len(l) : l[i].c = c

OnlyOld(cfg, b, old, new) == HasServer(cfg, b, old) /\ ~HasServer(cfg, b, new)
OnlyNew(cfg, b, old, new) == ~HasServer(cfg, b, old) /\ HasServer(cfg, b, new)

\* C3: ReplaceLeaf calls DeleteServer(old) and then AddServer(new) in one
\* transaction.  When old is a member before, the configuration its steps
\* leave behind has exactly one of old and new; the calls of the closure are
\* DeleteServer and then AddServer; a failed DeleteServer is followed by no
\* AddServer and by a rollback.
ReplaceLeafAtomic ==
    [][\A t \in Threads :
          (th[t].verb = "ReplaceLeaf" /\ th'[t] # th[t]) =>
              LET s == th[t]
                  l == th'[t].log
              IN
              /\ OnlyOld(hap, s.vb, s.vold, s.vnew) =>
                    \/ OnlyOld(hap', s.vb, s.vold, s.vnew)
                    \/ OnlyNew(hap', s.vb, s.vold, s.vnew)
              /\ s.pc = "mw_begin" => hap' = hap
              /\ (s.pc = "mw_begin" /\ Len(l) > 3) =>
                    /\ l[4].c = "DeleteServer"
                    /\ l[4].ok => (Len(l) >= 5 /\ l[5].c = "AddServer")
                    /\ ~l[4].ok => (~Called(l, "AddServer") /\ Last(l).c = "Rollback")
                    /\ ~Called(l, "CreateBackend")]_vars

\* a ReplaceLeaf was committed: the new server stands where the old one stood
ReplaceLeafSeen ==
    \E t \in Threads :
        /\ th[t].verb = "ReplaceLeaf"
        /\ Finished(th[t])
        /\ Last(th[t].log) = Call("Commit", TRUE)
        /\ OnlyNew(hap, th[t].vb, th[t].vold, th[t].vnew)

\* ------------------------------------------------------------------ properties: graft node

\* handler t has started a real leaf
StartedReal(t) == th[t].op = "GraftHandler" /\ th[t].ret # NoStr

\* C4: the requests that reach one graft node start one real leaf between
\* them: no two handlers of a graft node have each started a leaf (a process,
\* a ReplaceLeaf and an entry of LeafInstances) of their own.
GraftSingleFlight ==
    \A t, u \in Threads :
        (t # u /\ StartedReal(t) /\ StartedReal(u) /\ th[t].g = th[u].g) => th[t].ret = th[u].ret

\* C5: no stem of the catalog has both a graft node and leaves, the states
\* of the graft handler between AddLeaf and ClearGraftNode included.
GraftExclusive ==
    \A k \in Keys :
        Exists(k) => ~(stems[k].graft # NoLeaf /\ stems[k].leaves # {})

\* C6: every stem of the catalog has leaves or a graft node, from the moment
\* it is saved until it is deleted.
GraftOrLeaves ==
    \A k \in Keys :
        Exists(k) => (stems[k].graft # NoLeaf \/ stems[k].leaves # {})

AllRunning == UNION { { [k |-> k, l |-> l] : l \in RunningLeaves(k) } : k \in { x \in Keys : Exists(x) } }

\* C7: two distinct running leaves, of the same stem or of different stems,
\* never have the same port.
DistinctPorts ==
    \A a, b \in AllRunning : a # b => a.l.port # b.l.port

\* C8: when the graft handler has served a request (the answer of the real
\* leaf was proxied), the leaf it started is in LeafInstances with
\* StatusRunning, GraftNodeLeaf is nil, and in the stem's backend the server of
\* the graft node has been replaced by the server of that leaf.
ColdStartDone ==
    [][\A t \in Threads :
          (th[t].op = "GraftHandler" /\ Returns(t, "gh_signal") /\ th[t].resp = "proxied") =>
              LET k == th[t].key IN
              /\ stems'[k] # NoStem
              /\ \E l \in stems'[k].leaves : l.id = th[t].ret /\ l.status = StatusRunning
              /\ stems'[k].graft = NoLeaf
              /\ OnlyNew(hap', stems'[k].backend, GraftIDOf(k[1], k[2]), th[t].ret)]_vars

\* ------------------------------------------------------------------ properties: RegisterStem

\* thread t runs operation op and takes a step
Steps(t, op) == th[t].op = op /\ th'[t] # th[t]

\* C11: RegisterStem for a key the catalog already has fails with "already
\* exists" in the step that fetches the stem: it calls no verb of the HAProxy
\* client, starts no leaf and no graft node, and leaves the catalog as it is.
RegisterDuplicate ==
    [][\A t \in Threads :
          (Steps(t, "RegisterStem") /\ th[t].pc = "rs_fetch" /\ Exists(th[t].key)) =>
              /\ th'[t].pc = "done"
              /\ th'[t].err = "ErrAlreadyExists"
              /\ th'[t].log = <<>> /\ th'[t].verb = ""
              /\ stems' = stems /\ hap' = hap
              /\ procs' = procs /\ spawned' = spawned /\ grafts' = grafts]_vars

\* a RegisterStem was refused for a key that is registered
RegisterDuplicateSeen ==
    \E t \in Threads :
        /\ th[t].op = "RegisterStem" /\ th[t].pc = "done"
        /\ th[t].err = "ErrAlreadyExists"
        /\ Exists(th[t].key)

\* nothing but one call of a manager operation was issued
Alone == issued = CallWork

\* RegisterStem returns nil in this step of thread t
Registered(t) == Steps(t, "RegisterStem") /\ th'[t].pc = "done" /\ th'[t].err = Nil

ServerNames(cfg, b) == { sv.n : sv \in ServersOf(cfg, b) }

\* C12: when RegisterStem returns nil for a config with MinInstances = n > 0
\* (and nothing else was called), the stem is in the catalog with exactly n
\* leaves, all of them StatusRunning, GraftNodeLeaf is nil, and the backend
\* BindStem created, named by the URL without its leading slash, has exactly
\* the servers of these n leaves.
RegisterWithInstances ==
    [][\A t \in Threads :
          (Registered(t) /\ Alone /\ th[t].cfg.min # NoMin /\ Head(th[t].cfg.min) > 0) =>
              LET k == th[t].key
                  b == TrimPrefix(th[t].cfg.url)
              IN
              /\ stems'[k] # NoStem
              /\ Cardinality(stems'[k].leaves) = Head(th[t].cfg.min)
              /\ \A l \in stems'[k].leaves : l.status = StatusRunning
              /\ stems'[k].graft = NoLeaf
              /\ b \in hap'.backends
              /\ ServerNames(hap', b) = { l.server : l \in stems'[k].leaves }]_vars

Children(ts, t) == { u \in Threads : ts[u].parent = t }

\* C15: UnregisterStem on an absent key fails NotFound and changes nothing.
\* On a registered key it takes the snapshot of the running leaves, starts one
\* StopLeaf for each leaf of the snapshot, and leaves wg.Wait only when all of
\* them were started and have returned; when no stop failed it then calls
\* UnbindStem(stem.HAProxyBackend); the stem is deleted only after UnbindStem
\* has returned, and when UnregisterStem returns nil FetchStem(key) fails with
\* "not found".
UnregisterOrder ==
    [][\A t \in Threads :
          Steps(t, "UnregisterStem") =>
              LET s == th[t]
                  n == th'[t]
                  k == s.key
              IN
              /\ (s.pc = "ur_fetch" /\ ~Exists(k)) =>
                    /\ n.pc = "done" /\ n.err = "ErrStemNotFound"
                    /\ stems' = stems /\ hap' = hap /\ procs' = procs
                    /\ \A u \in Threads \ {t} : th'[u] = th[u]
              /\ (s.pc = "ur_leafs" /\ n.pc = "ur_wait") =>
                    n.pending = { l.id : l \in RunningLeaves(k) }
              /\ (s.pc = "ur_wait" /\ n.pc = "ur_wait") =>
                    \/ n.pending = s.pending
                    \/ \E id \in s.pending : \E u \in Threads \ {t} :
                          /\ n.pending = s.pending \ {id}
                          /\ th[u].pc = "idle"
                          /\ th'[u].pc = "st_fetch" /\ th'[u].parent = t
                          /\ th'[u].key = k /\ th'[u].leafID = id
                          /\ Children(th', t) = Children(th, t) \cup {u}
              /\ (s.pc = "ur_wait" /\ n.pc # "ur_wait") =>
                    /\ s.pending = {}
                    /\ Children(th, t) = {}
                    /\ s.stopErr = Nil =>
                          /\ n.pc = "mw_begin" /\ n.verb = "UnbindStem"
                          /\ n.vb = s.backend
                          /\ n.stack = <<"ur_delete">>
                          /\ stems' = stems
              /\ stems'[k] # stems[k] => (s.pc = "ur_delete" /\ stems'[k] = NoStem)
              /\ (n.pc = "done" /\ n.err = Nil) =>
                    /\ s.pc = "ur_delete"
                    /\ FetchStemInfo(stems', k).err = "ErrStemNotFound"]_vars

\* UnregisterStem returned nil after both leaves of the snapshot were stopped:
\* no server, no process and no stem is left
UnregisterSeen ==
    \E t \in Threads :
        /\ th[t].op = "UnregisterStem" /\ th[t].pc = "done" /\ th[t].err = Nil
        /\ th[t].key = LoadedKey /\ ~Exists(LoadedKey)
        /\ hap.servers = {} /\ procs = {}
        /\ hap.ver = 3

\* C16: when a StopLeaf started by UnregisterStem has failed, UnregisterStem
\* still awaits all stops, then still calls UnbindStem and deletes the stem,
\* and returns the stop error after that.
UnregisterStopError ==
    [][\A t \in Threads :
          (Steps(t, "UnregisterStem") /\ th[t].stopErr # Nil) =>
              LET s == th[t]
                  n == th'[t]
              IN
              /\ (s.pc = "ur_wait" /\ n.pc # "ur_wait") =>
                    /\ s.pending = {} /\ Children(th, t) = {}
                    /\ n.pc = "mw_begin" /\ n.verb = "UnbindStem" /\ n.vb = s.backend
              /\ n.pc = "done" =>
                    /\ s.pc = "ur_delete"
                    /\ n.err # Nil]_vars

\* UnregisterStem t has fetched the stem and has not returned
Unregistering(t) == th[t].op = "UnregisterStem" /\ th[t].pc \notin {"idle", "ur_fetch", "done"}

\* C17: while UnregisterStem(key) is in progress no StartLeaf on that stem
\* makes progress: no step spawns a process for the stem, binds a server for
\* it or adds a leaf to its LeafInstances.
UnregisterBlocksStart ==
    [][\A t \in Threads :
          Unregistering(t) =>
              LET k == th[t].key IN
              \A u \in Threads :
                  (th[u].key = k /\ th'[u] # th[u]) =>
                      /\ th[u].pc = "sl_spawn" => spawned' = spawned
                      /\ (th[u].pc = "mw_end" /\ th[u].verb \in {"BindLeaf", "ReplaceLeaf"}) =>
                            hap'.servers \subseteq hap.servers
                      /\ (stems[k] # NoStem /\ stems'[k] # NoStem) =>
                            stems'[k].leaves \subseteq stems[k].leaves]_vars

\* ------------------------------------------------------------------ properties: StopLeaf

\* StopLeaf has returned to its caller or to its goroutine
StopReturned(n) == n.pc \in {"done", "ur_stopped"}

\* the transaction of the last verb did not take effect: one of its calls failed
TxFailed(s) == \E i \in 1..Len(s.log) : ~s.log[i].ok

\* C18: StopLeaf fetches the stem, looks up the leaf, calls UnbindLeaf, kills
\* the process and calls RemoveLeaf, in this order.  A missing stem or leaf
\* fails NotFound with no HAProxy call and no kill; when UnbindLeaf failed in
\* HAProxy, StopLeaf returns an error, the process is not killed and the leaf
\* record stays; when StopLeaf returns nil the leaf is gone from LeafInstances
\* and the stem is still registered.
StopLeafOrder ==
    [][\A t \in Threads :
          (th'[t] # th[t] /\ th[t].pc \in {"st_fetch", "st_lookup", "st_kill", "st_remove"}) =>
              LET s == th[t]
                  n == th'[t]
                  k == s.key
              IN
              /\ (s.pc = "st_fetch" /\ ~Exists(k)) =>
                    /\ StopReturned(n) /\ n.err = "ErrStemNotFound" /\ n.log = <<>>
                    /\ hap' = hap /\ procs' = procs /\ stems' = stems
              /\ (s.pc = "st_fetch" /\ Exists(k)) =>
                    /\ n.pc = "st_lookup"
                    /\ hap' = hap /\ procs' = procs /\ stems' = stems
              /\ (s.pc = "st_lookup" /\ ~LeafIn(LeavesSeen(s), s.leafID)) =>
                    /\ StopReturned(n) /\ n.err = "ErrLeafNotFound" /\ n.log = <<>>
                    /\ hap' = hap /\ procs' = procs /\ stems' = stems
              /\ (s.pc = "st_lookup" /\ LeafIn(LeavesSeen(s), s.leafID)) =>
                    /\ n.pc = "mw_begin" /\ n.verb = "UnbindLeaf" /\ n.vb = s.backend
                    /\ n.vold = TheLeaf(LeavesSeen(s), s.leafID).server
                    /\ n.stack = <<"st_kill">> \o s.stack
                    /\ hap' = hap /\ procs' = procs /\ stems' = stems
              /\ (s.pc = "st_kill" /\ TxFailed(s)) =>
                    /\ StopReturned(n) /\ n.err # Nil
                    /\ procs' = procs /\ stems' = stems
              /\ (s.pc = "st_kill" /\ ~TxFailed(s)) =>
                    /\ ~\E pr \in procs' : pr.pid = s.pid
                    /\ stems' = stems /\ hap' = hap
                    /\ n.pc = "st_remove" \/ (StopReturned(n) /\ n.err # Nil)
              /\ (s.pc = "st_remove" /\ n.err = Nil) =>
                    /\ StopReturned(n)
                    /\ stems'[k] # NoStem
                    /\ ~LeafIn(stems'[k].leaves, s.leafID)]_vars

\* C19: when the process of the leaf no longer exists at the moment StopLeaf
\* terminates it, StopLeaf goes on to RemoveLeaf (and so removes the leaf and
\* returns nil) instead of returning the error of the kill.
StopLeafGoneProcess ==
    [][\A t \in Threads :
          ( /\ th'[t] # th[t] /\ th[t].pc = "st_kill" /\ th[t].mwErr = Nil
            /\ ~\E pr \in procs : pr.pid = th[t].pid ) =>
              th'[t].pc = "st_remove"]_vars

\* ------------------------------------------------------------------ properties: StartLeaf

\* StartLeaf has returned to its caller
StartReturned(n) == n.pc \in {"done", "rs_leaf", "gh_find"}

\* C20: when StartLeaf returns an error after it has spawned the process
\* (not ready, BindLeaf or ReplaceLeaf failed), the process has been killed
\* and no leaf record was added.
StartLeafCleansUp ==
    [][\A t \in Threads :
          ( /\ th'[t] # th[t] /\ th[t].pc \in {"sl_spawn", "sl_save"}
            /\ StartReturned(th'[t]) /\ th'[t].err # Nil ) =>
              LET pid == IF th[t].pc = "sl_save" THEN th[t].pid
                         ELSE IF spawned' # spawned THEN spawned' ELSE 0
              IN
              /\ ~\E pr \in procs' : pr.pid = pid
              /\ stems' = stems]_vars

\* C21: when LeafRepo.AddLeaf fails at the end of StartLeaf (the stem was
\* deleted meanwhile, or the leaf ID is taken), StartLeaf returns the error
\* with the process killed and with no server left in HAProxy for a leaf that
\* is not in the repository.
StartLeafSaveFailure ==
    [][\A t \in Threads :
          LET s == th[t]
              k == s.key
          IN
          ( /\ th'[t] # s /\ s.pc = "sl_save" /\ s.mwErr = Nil
            /\ AddLeaf(k, s.leafID, s.leafID, s.pid, s.port).err # Nil ) =>
              /\ StartReturned(th'[t]) /\ th'[t].err # Nil
              /\ ~\E pr \in procs' : pr.pid = s.pid
              /\ HasServer(hap', s.backend, s.leafID) =>
                    (stems'[k] # NoStem /\ LeafIn(stems'[k].leaves, s.leafID))]_vars

\* ------------------------------------------------------------------ properties: stale commits

\* C24: when a verb's transaction was opened at a configuration version that
\* another transaction has since replaced, its commit is rejected as stale, and
\* the verb then either starts over or returns an error to its caller: it
\* never returns nil with its transaction not applied.
StaleCommitSurfaces ==
    [][\A t \in Threads :
          (th[t].pc = "mw_end" /\ th'[t] # th[t] /\ th[t].ver # hap.ver) =>
              \/ th'[t].pc = "mw_begin"
              \/ th'[t].mwErr # Nil
              \/ /\ hap'.backends = th[t].tx.backends
                 /\ hap'.servers = th[t].tx.servers]_vars

\* ------------------------------------------------------------------ properties: working URLs

\* C26: no two stems in the catalog have the same WorkingURL (and so the same
\* HAProxy backend).
WorkingURLUnique ==
    \A k1, k2 \in Keys :
        (k1 # k2 /\ Exists(k1) /\ Exists(k2)) =>
            /\ stems[k1].url # stems[k2].url
            /\ stems[k1].backend # stems[k2].backend

\* ------------------------------------------------------------------ properties: StartGraftNodeLeaf

\* StartGraftNodeLeaf returns in this step of thread t
GraftStartReturned(t) == th'[t].pc \in {"done", "rs_graft"}

\* C23: StartGraftNodeLeaf on a stem whose GetGraftNode is not nil fails with
\* "already exists": no verb of the HAProxy client is called, no HTTP server is
\* started and the stored graft node stays as it is.  On a stem the catalog
\* does not have it fails with not found and changes nothing.
GraftNodeAlreadyExists ==
    [][\A t \in Threads :
          LET s == th[t]
              unchanged == /\ stems' = stems /\ hap' = hap /\ grafts' = grafts
                           /\ procs' = procs /\ spawned' = spawned
                           /\ th'[t].log = <<>> /\ th'[t].verb = ""
          IN
          /\ (th'[t] # s /\ s.pc \in {"sg_fetch", "sg_get"} /\ ~Exists(s.key)) =>
                /\ GraftStartReturned(t) /\ th'[t].err = "ErrStemNotFound"
                /\ th'[t].ret = NoStr /\ unchanged
          /\ (th'[t] # s /\ s.pc = "sg_get" /\ Exists(s.key) /\ stems[s.key].graft # NoLeaf) =>
                /\ GraftStartReturned(t) /\ th'[t].err = "ErrGraftExists"
                /\ th'[t].ret = NoStr /\ unchanged
          /\ (s.op = "StartGraftNodeLeaf" /\ s.pc # "done" /\ th'[t].pc = "done"
                /\ th'[t].err = "ErrGraftExists") =>
                s.pc = "sg_get"]_vars

\* a call of StartGraftNodeLeaf has failed with "already exists" on a stem
\* that has its graft node
GraftNodeAlreadyExistsSeen ==
    \E t \in Threads :
        /\ th[t].op = "StartGraftNodeLeaf" /\ th[t].pc = "done"
        /\ th[t].err = "ErrGraftExists"
        /\ Exists(th[t].key) /\ stems[th[t].key].graft # NoLeaf

\* ------------------------------------------------------------------ properties: BindStem

\* the configuration the data plane has committed
Committed(h) == [backends |-> h.backends, servers |-> h.servers]

BackendNames == { TrimPrefix(c.url) : c \in Configs }

StartLeafEmptyCommand ==
    [][\A t \in Threads :
          (th[t].pc = "sl_spawn" /\ th'[t] # th[t] /\ Fields(th[t].command) = <<>>) =>
              /\ StartReturned(th'[t]) /\ th'[t].err # Nil /\ th'[t].ret = NoStr
              /\ procs' = procs /\ spawned' = spawned
              /\ hap' = hap /\ stems' = stems
              /\ th'[t].log = <<>> /\ th'[t].verb = ""
              /\ \A u \in Threads : th'[u].pc # "crashed"]_vars

\* ------------------------------------------------------------------ properties: repositories

\* thread t runs the closure of the repository method m in this step
Runs(t, m) == th[t].pc = "repo_run" /\ th'[t] # th[t] /\ th[t].call.m = m

\* all stems but that of the key k are as they were
OthersUnchanged(k) == \A k2 \in Keys : k2 # k => stems'[k2] = stems[k2]

\* C27: ReplaceStem(key, newVersion, newConfig) on a stem of the catalog
\* replaces Version and Config and nothing else: LeafInstances,
\* GraftNodeLeaf, Environment, WorkingURL, HAProxyBackend and Name stay, and so
\* does every other stem.  On a key the catalog does not have it fails with
\* not found and the catalog stays as it is.
ReplaceStemFrame ==
    [][\A t \in Threads :
          Runs(t, "ReplaceStem") =>
              LET k == th[t].call.key IN
              IF ~Exists(k)
              THEN th'[t].err = "ErrStemNotFound" /\ stems' = stems
              ELSE /\ th'[t].err = Nil
                   /\ stems'[k].version = ReplacedVersion
                   /\ stems'[k].cfg = ReplacedCfg
                   /\ stems'[k].leaves = stems[k].leaves
                   /\ stems'[k].graft = stems[k].graft
                   /\ stems'[k].env = stems[k].env
                   /\ stems'[k].url = stems[k].url
                   /\ stems'[k].backend = stems[k].backend
                   /\ stems'[k].name = stems[k].name
                   /\ OthersUnchanged(k)]_vars

\* ReplaceStem has returned nil for a stem that has leaves
ReplaceStemSeen ==
    \E t \in Threads :
        /\ th[t].op = "Repo" /\ th[t].pc = "done" /\ th[t].call.m = "ReplaceStem"
        /\ th[t].err = Nil
        /\ stems[th[t].key].version = ReplacedVersion
        /\ stems[th[t].key].cfg = ReplacedCfg
        /\ stems[th[t].key].leaves # {}

\* C28: AddLeaf fails with not found when the stem is not in the catalog and
\* with "already exists" when the ID is in the stem's LeafInstances, and then
\* the catalog stays as it is.  Otherwise it returns nil and LeafInstances has
\* exactly one leaf more: that of the given ID, PID, server and port, with
\* StatusRunning; the other leaves, the rest of the stem and the other stems
\* stay.
AddLeafContract ==
    [][\A t \in Threads :
          Runs(t, "AddLeaf") =>
              LET k == th[t].call.key
                  a == LeafArg(k, th[t].call.n)
                  leaf == [id |-> a.id, pid |-> a.pid, port |-> a.port, server |-> a.server,
                           status |-> StatusRunning]
              IN
              IF ~Exists(k)
              THEN th'[t].err = "ErrStemNotFound" /\ stems' = stems
              ELSE IF \E l \in stems[k].leaves : l.id = a.id
              THEN th'[t].err = "ErrLeafExists" /\ stems' = stems
              ELSE /\ th'[t].err = Nil
                   /\ stems'[k].leaves = stems[k].leaves \cup {leaf}
                   /\ Cardinality(stems'[k].leaves) = Cardinality(stems[k].leaves) + 1
                   /\ stems' = [stems EXCEPT ![k].leaves = stems'[k].leaves]]_vars

\* AddLeaf has returned nil, and the stem has the leaf next to another
AddLeafSeen ==
    \E t \in Threads :
        /\ th[t].op = "Repo" /\ th[t].pc = "done" /\ th[t].call.m = "AddLeaf"
        /\ th[t].err = Nil
        /\ \E l \in stems[th[t].key].leaves :
              /\ l.id = LeafArg(th[t].key, th[t].call.n).id
              /\ l.status = StatusRunning
        /\ Cardinality(stems[th[t].key].leaves) = 2

\* C29: GetRunningLeafs returns the leaves of the stem with StatusRunning, all
\* of them and no other, each once, in ascending order of their IDs (for the
\* leaves of one stem: of their clock values), never the graft node, and
\* leaves the catalog as it is.  On a key the catalog does not have it fails
\* with not found.
RunningLeafsSorted ==
    [][\A t \in Threads :
          LET s == th[t]
              out == th'[t].out
          IN
          /\ (s.pc = "gr_fetch" /\ th'[t] # s) =>
                /\ stems' = stems
                /\ ~Exists(s.key) =>
                      th'[t].pc = "done" /\ th'[t].err = "ErrStemNotFound" /\ out = <<>>
          /\ (s.pc = "gr_leafs" /\ th'[t] # s) =>
                LET running == { l \in stems[s.key].leaves : l.status = StatusRunning } IN
                /\ th'[t].pc = "done" /\ th'[t].err = Nil
                /\ stems' = stems
                /\ { out[i] : i \in 1..Len(out) } = running
                /\ Len(out) = Cardinality(running)
                /\ \A i, j \in 1..Len(out) : i < j =>
                      /\ StrLess(out[i].id, out[j].id)
                      /\ \A n, m \in 1..MaxNano :
                            ( /\ out[i].id = LeafIDOf(s.key[1], s.key[2], n)
                              /\ out[j].id = LeafIDOf(s.key[1], s.key[2], m) ) => n < m
                /\ \A i \in 1..Len(out) : out[i].id # stems[s.key].graft.id]_vars

\* GetRunningLeafs has returned one leaf of a stem that has another leaf,
\* which is not running
RunningLeafsSeen ==
    \E t \in Threads :
        /\ th[t].op = "GetRunningLeafs" /\ th[t].pc = "done" /\ th[t].err = Nil
        /\ Len(th[t].out) = 1
        /\ \E l \in stems[th[t].key].leaves :
              l.status # StatusRunning /\ l.id # th[t].out[1].id

\* ------------------------------------------------------------------ properties: the catalog lock

\* the steps that call the HAProxy client, scan the ports, spawn a process
\* and wait for it
IOSteps == {"sl_start", "sl_spawn", "mw_begin", "mw_end"}

KeyAgreesWithStem ==
    \A k \in Keys :
        Exists(k) => stems[k].name = k[1] /\ stems[k].version = k[2]

\* ------------------------------------------------------------------ properties: failed registration

\* C38: when RegisterStem (with nothing else called) returns an error because
\* BindStem or a StartLeaf of MinInstances failed, the stem is not in the
\* catalog, no process it started is alive and its backend has no server.
RegisterFailureLeavesNothing ==
    [][\A t \in Threads :
          ( /\ Steps(t, "RegisterStem") /\ Alone
            /\ th[t].pc \in {"rs_save", "rs_leaf"}
            /\ th'[t].pc = "done" /\ th'[t].err # Nil ) =>
              /\ ~(stems'[th[t].key] # NoStem)
              /\ procs' = {}
              /\ ServersOf(hap', TrimPrefix(th[t].cfg.url)) = {}]_vars

\* ------------------------------------------------------------------ properties: concurrent registration

\* C39: of two RegisterStem calls for one key at most one returns nil, and
\* the BindStem of the call that loses leaves the servers of the backend as
\* the winner, whose stem is in the catalog, has bound them.
RegisterRace ==
    [][\A t \in Threads :
          LET s == th[t] IN
          /\ ( /\ s.op = "RegisterStem" /\ s.verb = "BindStem" /\ s.pc = "mw_end"
               /\ th'[t] # s /\ Exists(s.key) ) =>
                 ServersOf(hap', s.vb) = ServersOf(hap, s.vb)
          /\ (Registered(t) /\ s.pc # "done") =>
                 \A u \in Threads \ {t} :
                     (th[u].op = "RegisterStem" /\ th[u].pc = "done" /\ th[u].key = s.key) =>
                         th[u].err # Nil]_vars

\* ------------------------------------------------------------------ properties: unregistering a graft node

\* C37: when UnregisterStem returns nil for a stem that has a graft node, no
\* graft server of that stem is starting or listening, and the graft node's
\* server is gone from the stem's backend in HAProxy.
UnregisterStopsGraft ==
    [][\A t \in Threads :
          LET s == th[t]
              k == s.key
          IN
          ( /\ Steps(t, "UnregisterStem") /\ s.pc = "ur_delete"
            /\ th'[t].pc = "done" /\ th'[t].err = Nil
            /\ stems[k].graft # NoLeaf ) =>
              /\ \A g \in DOMAIN grafts :
                    ~(grafts'[g].state \in {"starting", "listening"} /\ grafts'[g].key = k)
              /\ ~HasServer(hap', TrimPrefix(stems[k].url), stems[k].graft.server)]_vars

\* C36: once a graft handler has cleared the graft node of its stem, the stem's
\* graft node stays nil: no later step stores the leaf of the server that handler
\* ran on as the stem's graft node again, also when the request arrived between
\* the server's start and SetGraftNode.
Cleared(u) ==
    /\ th[u].op = "GraftHandler"
    /\ th[u].pc \in {"gh_proxy", "gh_signal", "done"}
    /\ th[u].err = Nil
    /\ grafts[th[u].g].key = th[u].key

GraftNodeStaysNil ==
    [][\A u \in Threads :
         LET k == th[u].key IN
         (Cleared(u) /\ Exists(k) /\ stems[k].graft = NoLeaf /\ stems'[k] # NoStem)
             => ~(stems'[k].graft # NoLeaf /\ stems'[k].graft.id = grafts[th[u].g].id)]_vars

\* C33: when a step of the graft handler fails (StartLeaf, FindLeafByID or
\* ClearGraftNode) the handler answers 500 and sends no shutdown signal, and at
\* its return the graft server is listening and the stem's graft node is still
\* the leaf of that server, so that a later request starts the instance again.
HandlerFailureKeepsGraft ==
    [][\A t \in Threads :
         LET g == th[t].g
             k == th[t].key IN
         (Steps(t, "GraftHandler") /\ th'[t].pc = "done" /\ th'[t].err # Nil)
             => /\ th'[t].resp = "500"
                /\ grafts'[g].received = grafts[g].received
                /\ grafts'[g].state = "listening"
                /\ stems'[k] # NoStem
                /\ stems'[k].graft # NoLeaf
                /\ stems'[k].graft.id = grafts'[g].id]_vars

\* ------------------------------------------------------------------ a stem behind its graft node

\* the configuration of the stem (s, 1) without MinInstances
GraftCfg == [LoadedCfg EXCEPT !.min = NoMin]

\* the graft node StartGraftNodeLeaf stored for it
GraftLeaf ==
    [id |-> GraftIDOf(<<"s">>, <<"1">>), pid |-> 0, port |-> BasePort,
     server |-> GraftIDOf(<<"s">>, <<"1">>), status |-> StatusRunning]

\* the catalog, the committed configuration and the graft server after
\* RegisterStem of that configuration returned and the server began to listen
InitGraft ==
    /\ stems = [k \in Keys |->
                  IF k = LoadedKey THEN [NewStem(GraftCfg) EXCEPT !.graft = GraftLeaf] ELSE NoStem]
    /\ hap = [ver |-> 2, backends |-> {<<"b">>},
              servers |-> {[b |-> <<"b">>, n |-> GraftLeaf.server, port |-> GraftLeaf.port]}]
    /\ procs = {}
    /\ spawned = 0
    /\ grafts = [g \in 1..MaxGraftServers |->
                   [state |-> "listening", key |-> LoadedKey, id |-> GraftLeaf.id,
                    port |-> GraftLeaf.port, received |-> FALSE]]
    /\ clock = 1
    /\ issued = CallWork
    /\ th = [t \in Threads |-> Idle]

\* a step of a goroutine of the program: of a handler with the StartLeaf it
\* calls, or of the goroutine that waits for the shutdown signal
GraftStep ==
    \/ \E t \in Threads : SlStart(t)
    \/ \E t \in Threads : SlFetch(t)
    \/ \E t \in Threads : SlSpawn(t)
    \/ \E t \in Threads : MwBegin(t)
    \/ \E t \in Threads : MwEnd(t)
    \/ \E t \in Threads : SlSave(t)
    \/ \E t \in Threads : GhFind(t)
    \/ \E t \in Threads : GhClear(t)
    \/ \E t \in Threads : GhProxy(t)
    \/ \E t \in Threads : GhSignal(t)
    \/ \E t \in Threads : Finish(t)
    \/ \E g \in DOMAIN grafts : GraftShutdown(g)

\* requests to the graft server, the leaf processes, and the program's steps
NextGraft ==
    \/ \E t \in Threads : \E g \in DOMAIN grafts : GraftRequest(t, g)
    \/ ProcExit
    \/ GraftStep

\* the Go scheduler runs a goroutine that can take a step: the program does not
\* stop while one of its goroutines can go on; requests and process exits are
\* not forced to happen
SpecGraft == InitGraft /\ [][NextGraft]_vars /\ WF_vars(GraftStep)

\* the handler of a request to the graft server has not returned yet
InHandler(t) == th[t].op = "GraftHandler" /\ th[t].pc # "done"

\* the shutdown goroutine of a graft server received the signal
Signalled(g) == grafts[g] # NoGraft /\ grafts[g].received

\* C32: the graft handler sends the shutdown signal only after the proxied
\* response was written; every handler invocation eventually returns, however
\* many requests reached the handler, and once the signal was received the
\* shutdown completes: the server stops listening and no handler is left in it.
GraftShutdownCompletes ==
    /\ [][\A t \in Threads :
            (th[t].pc = "gh_signal" /\ th'[t] # th[t]) => th[t].resp \in {"proxied", "502"}]_vars
    /\ \A t \in Threads : InHandler(t) ~> ~InHandler(t)
    /\ \A g \in 1..MaxGraftServers :
           Signalled(g)
               ~> (grafts[g].state # "listening" /\ \A t \in Threads : ~(InHandler(t) /\ th[t].g = g))

\* C31: the reads of a stem's LeafInstances are made under the catalog lock, so
\* that none of them overlaps a write to the same stem: when GetRunningLeafs walks
\* stem.LeafInstances, no other goroutine is inside the write lock with an AddLeaf
\* on that stem.
LeafReadsExcludeWriters ==
    [][\A t \in Threads :
         (th[t].pc = "gr_leafs" /\ th'[t] # th[t])
             => ~\E u \in Threads \ {t} :
                    /\ th[u].lock = "W"
                    /\ th[u].call.m = "AddLeaf"
                    /\ th[u].call.key = th[t].key]_vars

\* the step of StartLeaf that started a process and waited for the service
GateStep(t) == th[t].pc = "sl_spawn" /\ th'[t] # th[t] /\ spawned' = spawned + 1

\* the process that step started
Started == CHOOSE pr \in procs' : pr.pid = spawned'

\* a connection to the port was accepted while StartLeaf waited
Connects(t) == Started.listening \/ PortBusy(th[t].port)

\* StartLeaf went on after the wait; otherwise it returned
GateOpen(t) == th'[t].pc = "mw_begin"

\* StartLeaf returned an error, and neither called HAProxy nor added a leaf
GateShut(t) ==
    /\ th'[t].err # Nil
    /\ th'[t].pc = Head(th[t].stack)
    /\ hap' = hap
    /\ stems' = stems

\* C34 as stated: the readiness gate succeeds exactly when a connection to the
\* port is accepted or, with a start message configured, a line containing it
\* is written; without a configured start message no line opens the gate; when
\* the gate does not open, StartLeaf returns an error without calling HAProxy
\* or adding a leaf.
GateIffReady ==
    [][\A t \in Threads :
         GateStep(t) =>
            /\ GateOpen(t) <=> (Connects(t) \/ (th[t].msg /\ th[t].lines.message))
            /\ (~th[t].msg /\ ~Connects(t)) => ~GateOpen(t)
            /\ ~GateOpen(t) => GateShut(t)]_vars

\* C34: the gate opens only when a connection to the port is accepted or, with
\* a start message configured, a line containing it is written, and it does
\* open then unless reading the output failed, in which case StartLeaf may
\* return that error instead; without a configured start message no line
\* opens the gate; when the gate does not open, StartLeaf returns an error
\* without calling HAProxy or adding a leaf.
GateUnlessReadError ==
    [][\A t \in Threads :
         GateStep(t) =>
            /\ GateOpen(t) => (Connects(t) \/ (th[t].msg /\ th[t].lines.message))
            /\ ((Connects(t) \/ (th[t].msg /\ th[t].lines.message)) /\ ~th[t].lines.tooLong)
                   => GateOpen(t)
            /\ (~th[t].msg /\ ~Connects(t)) => ~GateOpen(t)
            /\ ~GateOpen(t) => GateShut(t)]_vars

\* StartLeaf is past the gate on the start message alone: nothing accepts
\* connections on the port
GateOpenedByMessage ==
    \E t \in Threads :
        /\ th[t].pc = "mw_begin"
        /\ th[t].verb \in {"BindLeaf", "ReplaceLeaf"}
        /\ th[t].msg
        /\ ~PortBusy(th[t].port)
        /\ \E pr \in procs : pr.pid = th[t].pid

\* ------------------------------------------------------------------ the output of a leaf process

\* the lines one pipe of a process carries
MaxLines == 3

\* a line that contains the text of the start message, another line, and a
\* line longer than the scanner's buffer
OutputLines == {"started", "other", "long"}

\* startLeafInternal after cmd.Start: the goroutine that waits for the service
\* has messageChan, errorChan and the open log file; a logAndDetectOutput
\* goroutine reads a pipe of the process (stdout; stderr has one more)
InitOutput ==
    /\ \E startMessage, listens \in BOOLEAN :
         /\ stems = [k \in Keys |->
                       IF k = LoadedKey THEN NewStem([GraftCfg EXCEPT !.msg = startMessage])
                       ELSE NoStem]
         /\ procs = {[pid |-> 1, port |-> BasePort, listening |-> listens]}
         /\ th = [t \in Threads |->
                    IF t = 1
                    THEN [Idle EXCEPT !.op = "startLeafInternal", !.pc = "sl_wait",
                                      !.key = LoadedKey, !.port = BasePort, !.pid = 1,
                                      !.msg = startMessage,
                                      !.logFile = [open |-> TRUE, lines |-> 0]]
                    ELSE [Idle EXCEPT !.op = "logAndDetectOutput", !.pc = "out_scan",
                                      !.parent = 1, !.msg = startMessage]]
    /\ hap = [ver |-> 1, backends |-> {<<"b">>}, servers |-> {}]
    /\ spawned = 1
    /\ grafts = [g \in 1..MaxGraftServers |-> NoGraft]
    /\ clock = 1
    /\ issued = CallWork

\* the process writes a line to the pipe the goroutine u reads
ProcWrite(u, line) ==
    /\ th[u].op = "logAndDetectOutput"
    /\ \E pr \in procs : pr.pid = th[th[u].parent].pid
    /\ th[u].i < MaxLines
    /\ th' = [th EXCEPT ![u].pipe = Append(@, line), ![u].i = @ + 1]
    /\ UNCHANGED <<stems, hap, procs, spawned, grafts, clock, issued>>

\* scanner.Scan() and logFile.WriteString: a line too long ends the loop with
\* scanner.Err(); a write to a closed file fails and is only reported
OutScan(u) ==
    /\ th[u].pc = "out_scan"
    /\ th[u].pipe # <<>>
    /\ LET line == Head(th[u].pipe)
           p == th[u].parent
       IN
       th' = IF line = "long"
             THEN [th EXCEPT ![u].pipe = Tail(@), ![u].pc = "out_err"]
             ELSE [th EXCEPT ![u].pipe = Tail(@),
                             ![u].pc = IF logAndDetectOutput(th[u].msg,
                                              [message |-> line = "started", tooLong |-> FALSE])
                                       THEN "out_send" ELSE "out_scan",
                             ![p].logFile.lines = IF th[p].logFile.open THEN @ + 1 ELSE @]
    /\ UNCHANGED <<stems, hap, procs, spawned, grafts, clock, issued>>

\* messageChan <- line, on a channel that holds one line
OutSend(u) ==
    /\ th[u].pc = "out_send"
    /\ Len(th[th[u].parent].messageChan) < 1
    /\ th' = [th EXCEPT ![th[u].parent].messageChan = Append(@, "started"),
                        ![u].pc = "out_scan"]
    /\ UNCHANGED <<stems, hap, procs, spawned, grafts, clock, issued>>

\* errorChan <- err, on a channel that holds one error; the goroutine ends
OutFail(u) ==
    /\ th[u].pc = "out_err"
    /\ Len(th[th[u].parent].errorChan) < 1
    /\ th' = [th EXCEPT ![th[u].parent].errorChan = Append(@, "ErrTooLong"),
                        ![u].pc = "done"]
    /\ UNCHANGED <<stems, hap, procs, spawned, grafts, clock, issued>>

\* startLeafInternal returns e: the deferred logFile.Close() runs
OutReturn(s, e) == [s EXCEPT !.pc = "done", !.err = e, !.logFile.open = FALSE]

\* waitForServiceToStart: a round that ends the wait.  select takes a line or
\* an error when a channel holds one, and dials otherwise; when nothing
\* answers until the timeout, the wait ends with an error
SlWait(t) ==
    /\ th[t].pc = "sl_wait"
    /\ LET s == th[t] IN
       \/ /\ s.messageChan # <<>>
          /\ th' = [th EXCEPT ![t] = OutReturn([s EXCEPT !.messageChan = Tail(@)], Nil)]
       \/ /\ s.errorChan # <<>>
          /\ th' = [th EXCEPT ![t] = OutReturn([s EXCEPT !.errorChan = Tail(@)], "ErrReadLogs")]
       \/ /\ s.messageChan = <<>> /\ s.errorChan = <<>>
          /\ th' = [th EXCEPT ![t] =
                 OutReturn(s, IF PortBusy(s.port) THEN Nil ELSE "ErrNotReady")]
    /\ UNCHANGED <<stems, hap, procs, spawned, grafts, clock, issued>>

\* a step of a goroutine of the program
OutStep ==
    \/ \E u \in Threads : OutScan(u)
    \/ \E u \in Threads : OutSend(u)
    \/ \E u \in Threads : OutFail(u)
    \/ \E t \in Threads : SlWait(t)

\* the process writes, the goroutines run
NextOutput ==
    \/ \E u \in Threads : \E line \in OutputLines : ProcWrite(u, line)
    \/ OutStep

\* the Go scheduler runs a goroutine that can take a step; the process is not
\* forced to write
SpecOutput == InitOutput /\ [][NextOutput]_vars /\ WF_vars(OutStep)

\* the goroutine u reads a pipe
IsReader(u) == th[u].op = "logAndDetectOutput"

\* C35: every line a leaf process writes to a pipe is eventually appended to
\* its log file, and the goroutine that reads the pipe never stays blocked in a
\* send on the readiness channel, also when lines with the start message are
\* written after the readiness gate has returned.
EveryLineLogged ==
    /\ \A u \in Threads : \A n \in 1..MaxLines :
           (IsReader(u) /\ th[u].i >= n)
               ~> (IsReader(u) /\ th[th[u].parent].logFile.lines >= n)
    /\ \A u \in Threads :
           (IsReader(u) /\ th[u].pc = "out_send") ~> (th[u].pc # "out_send")

====
